---- MODULE Spec2Model ----
(***************************************************************************)
(* A model of the extraction / cleaning engine of the ramen scraper:       *)
(*   data_cleaner.py  DataCleaner (clean_text, clean_price,                *)
(*                    get_price_range, is_valid_article, clean_article,    *)
(*                    remove_duplicates, clean_all)                        *)
(*   scraper.py       RamenScraper (is_descriptive_text, parse_menu_page)  *)
(*                                                                         *)
(* A Python str is a sequence of one-character strings.  Characters that   *)
(* are not ASCII carry a mnemonic name:                                    *)
(*   "YEN"   U+00A5 yen sign          "FWYEN" U+FFE5 full-width yen sign   *)
(*   "ZWSP"  U+200B zero-width space  "FWLT"  U+FF1C full-width '<'        *)
(*   "FWGT"  U+FF1E full-width '>'                                         *)
(* A Python dict is a function from the keys that are present to values;   *)
(* a call that raises is the value Raised.                                 *)
(***************************************************************************)
EXTENDS Integers, Sequences, FiniteSets, TLC

VARIABLES
    text, prev_text, ncalls,            \* clean_text applied repeatedly
    price_text, price, price_range, price_pc,   \* the price parser
    input_file, articles, cleaned_articles, unique_articles, seen_items, stats,
    cursor, clean_pc,
                                        \* DataCleaner.clean_all
    page, menu_items, menu_pc, menu_cursor,     \* RamenScraper.parse_menu_page
    food_articles, food_results,                \* DataCleaner.is_non_food_product
    store_lines, store_i, stores, current_store, store_content_lines,
    in_store_section, store_pc,         \* RamenScraper.parse_store_information
    product_soup, product_url, product_data, product_pc,
                                        \* RamenScraper.parse_product_detail
    candidate, is_descriptive, descriptive_pc,  \* RamenScraper.is_descriptive_text
    site, max_depth, prefecture_links, visited_urls, call_stack, get_page_log,
    all_stores, crawl_pc,               \* RamenScraper.scrape_ippudo_stores
    runner, data_files, success, errors, run_log, run_result, run_pc
                                        \* PipelineRunner.run

text_vars  == <<text, prev_text, ncalls>>
price_vars == <<price_text, price, price_range, price_pc>>
clean_vars == <<input_file, articles, cleaned_articles, unique_articles, seen_items, stats, cursor, clean_pc>>
menu_vars  == <<page, menu_items, menu_pc, menu_cursor>>
food_vars  == <<food_articles, food_results>>
store_vars == <<store_lines, store_i, stores, current_store, store_content_lines, in_store_section, store_pc>>
product_vars == <<product_soup, product_url, product_data, product_pc>>
descriptive_vars == <<candidate, is_descriptive, descriptive_pc>>
crawl_vars == <<site, max_depth, prefecture_links, visited_urls, call_stack, get_page_log, all_stores, crawl_pc>>
run_vars == <<runner, data_files, success, errors, run_log, run_result, run_pc>>
vars == <<text_vars, price_vars, clean_vars, menu_vars, food_vars, store_vars, product_vars, descriptive_vars, crawl_vars, run_vars>>

----------------------------------------------------------------------------
(* Bounds of the model *)

MaxFrags == 3          \* fragments in a text given to clean_text
MaxCalls == 2          \* successive applications of clean_text
MaxPriceFrags == 3     \* fragments in a text given to the price parser
MaxDigits == 8         \* digits in one number of such a text
MaxArticles == 2       \* records in the JSON file given to clean_all
MaxElems == 2          \* elements in a page given to parse_menu_page
MaxProducts == 2       \* records given to is_non_food_product side by side
MaxLines == 4          \* lines of the text given to parse_store_information

----------------------------------------------------------------------------
(* Python str primitives *)

Min(S) == CHOOSE m \in S : \A n \in S : m <= n
Max(S) == CHOOSE m \in S : \A n \in S : n <= m

RECURSIVE Concat(_)
Concat(ss) == IF ss = <<>> THEN <<>> ELSE Head(ss) \o Concat(Tail(ss))

\* s[i:] with a 1-based i
From(s, i) == SubSeq(s, i, Len(s))

\* str.startswith at a 1-based offset
StartsWithAt(s, i, p) ==
    /\ i + Len(p) - 1 <= Len(s)
    /\ \A k \in 1..Len(p) : s[i + k - 1] = p[k]

StartsWith(s, p) == StartsWithAt(s, 1, p)

\* p in s
Contains(s, p) == \E i \in 1..(Len(s) - Len(p) + 1) : StartsWithAt(s, i, p)

\* s.find(p), 1-based, 0 when absent
Find(s, p) ==
    LET hits == {i \in 1..(Len(s) - Len(p) + 1) : StartsWithAt(s, i, p)}
    IN  IF hits = {} THEN 0 ELSE Min(hits)

\* str.isspace of one character, over the characters of the model
IsSpace(c) == c \in {" ", "\n", "\t", "\f", "\r"}

\* str.strip()
Strip(s) ==
    LET keep == {i \in 1..Len(s) : ~IsSpace(s[i])}
    IN  IF keep = {} THEN <<>> ELSE SubSeq(s, Min(keep), Max(keep))

\* str.split(sep) for a one-character sep: always at least one piece
RECURSIVE SplitFrom(_, _, _)
SplitFrom(s, sep, i) ==
    LET cuts == {j \in i..Len(s) : s[j] = sep}
    IN  IF cuts = {} THEN <<SubSeq(s, i, Len(s))>>
        ELSE <<SubSeq(s, i, Min(cuts) - 1)>> \o SplitFrom(s, sep, Min(cuts) + 1)

Split(s, sep) == SplitFrom(s, sep, 1)

\* sep.join(parts)
RECURSIVE Join(_, _)
Join(parts, sep) ==
    IF parts = <<>> THEN <<>>
    ELSE IF Len(parts) = 1 THEN parts[1]
    ELSE parts[1] \o <<sep>> \o Join(Tail(parts), sep)

----------------------------------------------------------------------------
(* DataCleaner.clean_text *)

\* re.sub(r'<[^>]+>', '', text): a '<', one or more characters that are not
\* '>', then the first '>'.  TagEnd is the index of that '>' or 0.
TagEnd(s, i) ==
    LET closers == {j \in (i + 1)..Len(s) : s[j] = ">"}
    IN  IF closers = {} THEN 0
        ELSE IF Min(closers) >= i + 2 THEN Min(closers) ELSE 0

RECURSIVE StripTagsFrom(_, _)
StripTagsFrom(s, i) ==
    IF i > Len(s) THEN <<>>
    ELSE IF s[i] = "<" /\ TagEnd(s, i) # 0 THEN StripTagsFrom(s, TagEnd(s, i) + 1)
    ELSE <<s[i]>> \o StripTagsFrom(s, i + 1)

StripTags(s) == StripTagsFrom(s, 1)

\* html.unescape: the character references whose names can be written with
\* the characters of the model (html.entities.html5, with and without ';')
MaxEntityName == 32
NameStop == {"\t", "\n", "\f", " ", "<", "&", "#", ";"}

html5 ==
    ( <<"l", "t", ";">>      :> <<"<">> ) @@
    ( <<"l", "t">>           :> <<"<">> ) @@
    ( <<"g", "t", ";">>      :> <<">">> ) @@
    ( <<"g", "t">>           :> <<">">> ) @@
    ( <<"a", "m", "p", ";">> :> <<"&">> ) @@
    ( <<"a", "m", "p">>      :> <<"&">> )

\* html._replace_charref for a named reference s (the text after '&')
replace_charref(s) ==
    IF s \in DOMAIN html5 THEN html5[s]
    ELSE LET xs == {x \in 2..(Len(s) - 1) : SubSeq(s, 1, x) \in DOMAIN html5}
         IN  IF xs = {} THEN <<"&">> \o s
             ELSE html5[SubSeq(s, 1, Max(xs))] \o From(s, Max(xs) + 1)

\* the end of the match of &([^\t\n\f <&#;]{1,32};?) at the '&' at i, or 0
CharrefEnd(s, i) ==
    LET stops == {j \in (i + 1)..Len(s) : s[j] \in NameStop}
        runEnd == Min({Len(s), i + MaxEntityName} \cup {j - 1 : j \in stops})
    IN  IF runEnd <= i THEN 0
        ELSE IF runEnd < Len(s) /\ s[runEnd + 1] = ";" THEN runEnd + 1
        ELSE runEnd

RECURSIVE UnescapeFrom(_, _)
UnescapeFrom(s, i) ==
    IF i > Len(s) THEN <<>>
    ELSE IF s[i] = "&" /\ CharrefEnd(s, i) # 0
         THEN replace_charref(SubSeq(s, i + 1, CharrefEnd(s, i)))
                  \o UnescapeFrom(s, CharrefEnd(s, i) + 1)
    ELSE <<s[i]>> \o UnescapeFrom(s, i + 1)

unescape(s) == IF Contains(s, <<"&">>) THEN UnescapeFrom(s, 1) ELSE s

\* re.sub(r'[\u200b-\u200d\ufeff]', '', text)
RemoveZeroWidth(s) == SelectSeq(s, LAMBDA c : c # "ZWSP")

\* unicodedata.normalize('NFKC', text) on the characters of the model
NFKCChar(c) ==
    CASE c = "FWLT"  -> "<"
      [] c = "FWGT"  -> ">"
      [] c = "FWYEN" -> "YEN"
      [] OTHER       -> c

NFKC(s) == [i \in 1..Len(s) |-> NFKCChar(s[i])]

\* re.sub(r' +', ' ', text)
RECURSIVE CollapseSpaces(_)
CollapseSpaces(s) ==
    IF Len(s) < 2 THEN s
    ELSE IF s[1] = " " /\ s[2] = " " THEN CollapseSpaces(Tail(s))
    ELSE <<s[1]>> \o CollapseSpaces(Tail(s))

\* re.sub(r'\n{3,}', '\n\n', text)
RECURSIVE CollapseNewlines(_)
CollapseNewlines(s) ==
    IF Len(s) < 3 THEN s
    ELSE IF s[1] = "\n" /\ s[2] = "\n" /\ s[3] = "\n" THEN CollapseNewlines(Tail(s))
    ELSE <<s[1]>> \o CollapseNewlines(Tail(s))

\* lines = [line.strip() for line in text.split('\n')]; '\n'.join(lines).strip()
StripLines(s) ==
    LET lines == Split(s, "\n")
    IN  Strip(Join([i \in 1..Len(lines) |-> Strip(lines[i])], "\n"))

clean_text(s) ==
    IF s = <<>> THEN <<>>
    ELSE StripLines(CollapseNewlines(CollapseSpaces(NFKC(RemoveZeroWidth(unescape(StripTags(s)))))))

----------------------------------------------------------------------------
(* Texts given to clean_text: up to MaxFrags fragments *)

TextFragments ==
    { <<"<", "b", ">">>,
      <<"&", "l", "t", ";">>,
      <<"&", "g", "t", ";">>,
      <<"&", "a", "m", "p", ";">>,
      <<"l", "t", ";">>,
      <<"b">>,
      <<" ">>,
      <<"\n">>,
      <<"\n", " ", "\n">>,
      <<"\n", " ", "\n", " ", "\n">>,
      <<"ZWSP">>,
      <<"FWLT">>,
      <<">">> }

FragSeqs(n) == UNION {[1..k -> TextFragments] : k \in 0..n}

TextInputs == {Concat(fs) : fs \in FragSeqs(MaxFrags)}

----------------------------------------------------------------------------
(* DataCleaner.clean_price and DataCleaner.get_price_range *)

\* the value of a call that raises (here: ValueError from int(''))
Raised == <<"ValueError">>
\* a result variable before the call that sets it
Unset == <<"unset">>

Digits == {"0", "1", "2", "3", "4", "5", "6", "7", "8", "9"}

DigitVal(c) ==
    CASE c = "0" -> 0 [] c = "1" -> 1 [] c = "2" -> 2 [] c = "3" -> 3 [] c = "4" -> 4
      [] c = "5" -> 5 [] c = "6" -> 6 [] c = "7" -> 7 [] c = "8" -> 8 [] c = "9" -> 9

\* a character of the class [\d,]
IsPriceChar(c) == c \in Digits \cup {","}

IsYenSign(c) == c \in {"YEN", "FWYEN"}

\* the last index of the maximal run of [\d,] that starts at i
RunEnd(s, i) ==
    LET stops == {j \in i..Len(s) : ~IsPriceChar(s[j])}
    IN  IF stops = {} THEN Len(s) ELSE Min(stops) - 1

\* re.findall(r'[\d,]+', s)
RECURSIVE NumberRunsFrom(_, _)
NumberRunsFrom(s, i) ==
    IF i > Len(s) THEN <<>>
    ELSE IF IsPriceChar(s[i])
         THEN <<SubSeq(s, i, RunEnd(s, i))>> \o NumberRunsFrom(s, RunEnd(s, i) + 1)
    ELSE NumberRunsFrom(s, i + 1)

NumberRuns(s) == NumberRunsFrom(s, 1)

\* re.findall(r'[YEN FWYEN][\d,]+', s)
RECURSIVE YenRunsFrom(_, _)
YenRunsFrom(s, i) ==
    IF i > Len(s) THEN <<>>
    ELSE IF IsYenSign(s[i]) /\ i < Len(s) /\ IsPriceChar(s[i + 1])
         THEN <<SubSeq(s, i, RunEnd(s, i + 1))>> \o YenRunsFrom(s, RunEnd(s, i + 1) + 1)
    ELSE YenRunsFrom(s, i + 1)

YenRuns(s) == YenRunsFrom(s, 1)

\* x.replace(',', '')
RemoveCommas(x) == SelectSeq(x, LAMBDA c : c # ",")

\* int('') raises ValueError: a run of separators only has no value
HasDigit(x) == RemoveCommas(x) # <<>>

\* int(d) for a non-empty string of digits
RECURSIVE ParseInt(_)
ParseInt(d) ==
    IF d = <<>> THEN 0
    ELSE 10 * ParseInt(SubSeq(d, 1, Len(d) - 1)) + DigitVal(d[Len(d)])

\* the key of max(): int(x.replace(',', ''))
RunValue(x) == ParseInt(RemoveCommas(x))

\* max(numbers, key=...) evaluates the key of every run
MaxRaises(numbers) == \E i \in 1..Len(numbers) : ~HasDigit(numbers[i])

\* max(numbers, key=...): the first run of greatest value
MaxByValue(numbers) ==
    LET best == Max({RunValue(numbers[i]) : i \in 1..Len(numbers)})
    IN  numbers[Min({i \in 1..Len(numbers) : RunValue(numbers[i]) = best})]

\* m.replace(FWYEN, YEN)
NormalizeYen(m) == [i \in 1..Len(m) |-> IF m[i] = "FWYEN" THEN "YEN" ELSE m[i]]

\* clean_price taking the currency-tagged number of greatest value instead of
\* the first one
clean_price_largest_tagged(p) ==
    IF p = <<>> THEN <<>>
    ELSE LET price_str == Strip(p)
             matches == YenRuns(price_str)
             numbers == NumberRuns(price_str)
         IN  IF matches # <<>>
             THEN IF MaxRaises(numbers) THEN NormalizeYen(matches[1])
                  ELSE NormalizeYen(matches[Min({i \in 1..Len(matches) :
                           \A j \in 1..Len(matches) :
                               RunValue(Tail(matches[j])) <= RunValue(Tail(matches[i]))})])
             ELSE IF numbers # <<>>
                  THEN IF MaxRaises(numbers) THEN Raised
                       ELSE <<"YEN">> \o MaxByValue(numbers)
             ELSE <<>>

clean_price(p) ==
    IF p = <<>> THEN <<>>
    ELSE LET price_str == Strip(p)
             matches == YenRuns(price_str)
             numbers == NumberRuns(price_str)
         IN  IF matches # <<>> THEN NormalizeYen(matches[1])
             ELSE IF numbers # <<>>
                  THEN IF MaxRaises(numbers) THEN Raised
                       ELSE <<"YEN">> \o MaxByValue(numbers)
             ELSE <<>>

RangeUnder1000  == <<"<", " ", "YEN", "1", ",", "0", "0", "0">>
Range1000to2000 == <<"YEN", "1", ",", "0", "0", "0", " ", "-", " ", "YEN", "2", ",", "0", "0", "0">>
Range2000to3000 == <<"YEN", "2", ",", "0", "0", "0", " ", "-", " ", "YEN", "3", ",", "0", "0", "0">>
Range3000to5000 == <<"YEN", "3", ",", "0", "0", "0", " ", "-", " ", "YEN", "5", ",", "0", "0", "0">>
Range5000to10000 == <<"YEN", "5", ",", "0", "0", "0", " ", "-", " ", "YEN", "1", "0", ",", "0", "0", "0">>
RangeOver10000  == <<">", " ", "YEN", "1", "0", ",", "0", "0", "0">>

\* the chain with closed upper ends: a boundary value stays in the bucket below
price_bucket_closed(price_value) ==
    IF price_value <= 1000 THEN RangeUnder1000
    ELSE IF price_value <= 2000 THEN Range1000to2000
    ELSE IF price_value <= 3000 THEN Range2000to3000
    ELSE IF price_value <= 5000 THEN Range3000to5000
    ELSE IF price_value <= 10000 THEN Range5000to10000
    ELSE RangeOver10000

\* the if/elif chain of get_price_range
price_bucket(price_value) ==
    IF price_value < 1000 THEN RangeUnder1000
    ELSE IF price_value < 2000 THEN Range1000to2000
    ELSE IF price_value < 3000 THEN Range2000to3000
    ELSE IF price_value < 5000 THEN Range3000to5000
    ELSE IF price_value < 10000 THEN Range5000to10000
    ELSE RangeOver10000

get_price_range(p) ==
    IF p = <<>> THEN <<>>
    ELSE LET numbers == NumberRuns(Strip(p))
         IN  IF numbers = <<>> THEN <<>>
             ELSE IF MaxRaises(numbers) THEN Raised
             ELSE IF ~HasDigit(MaxByValue(numbers)) THEN <<>>
             ELSE price_bucket(RunValue(MaxByValue(numbers)))

----------------------------------------------------------------------------
(* Texts given to the price parser: up to MaxPriceFrags fragments, the values
   on both sides of every bucket boundary among them *)

PriceFragments ==
    { <<"YEN">>, <<"FWYEN">>, <<",">>, <<" ">>, <<"x">>,
      <<"YEN", "9", "9", "9">>,
      <<"FWYEN", "2", "0", "0", "0">>,
      <<"0">>,
      <<"9", "9", "9">>,
      <<"1", ",", "0", "0", "0">>,
      <<"1", "9", "9", "9">>,
      <<"2", "0", "0", "0">>,
      <<"2", ",", "9", "9", "9">>,
      <<"3", ",", "0", "0", "0">>,
      <<"3", ",", "5", "8", "0">>,
      <<"4", "9", "9", "9">>,
      <<"5", ",", "0", "0", "0">>,
      <<"9", "9", "9", "9">>,
      <<"1", "0", ",", "0", "0", "0">> }

PriceFragSeqs == UNION {[1..k -> PriceFragments] : k \in 0..MaxPriceFrags}

\* the numbers of a text stay below MaxDigits digits
FitsDigits(s) ==
    \A i \in 1..Len(NumberRuns(s)) : Len(RemoveCommas(NumberRuns(s)[i])) <= MaxDigits

PriceInputs == {t \in {Concat(fs) : fs \in PriceFragSeqs} : FitsDigits(t)}

----------------------------------------------------------------------------
(* Python dict and list primitives *)

\* article.get(k, '')
Get(a, k) == IF k \in DOMAIN a THEN a[k] ELSE <<>>

\* d[k] = v
Put(d, k, v) == [x \in DOMAIN d \cup {k} |-> IF x = k THEN v ELSE d[x]]

\* x in a list
InSeq(x, xs) == \E i \in 1..Len(xs) : xs[i] = x

\* str.lower() on the letters of the model
UpperCase == <<"A", "B", "C", "D", "E", "F", "G", "H", "I", "J", "K", "L", "M",
               "N", "O", "P", "Q", "R", "S", "T", "U", "V", "W", "X", "Y", "Z">>
LowerCase == <<"a", "b", "c", "d", "e", "f", "g", "h", "i", "j", "k", "l", "m",
               "n", "o", "p", "q", "r", "s", "t", "u", "v", "w", "x", "y", "z">>

LowerChar(c) ==
    IF \E i \in 1..26 : UpperCase[i] = c
    THEN LowerCase[CHOOSE i \in 1..26 : UpperCase[i] = c]
    ELSE c

Lower(s) == [i \in 1..Len(s) |-> LowerChar(s[i])]

\* any(kw in s for kw in kws)
AnyIn(kws, s) == \E i \in 1..Len(kws) : Contains(s, kws[i])

----------------------------------------------------------------------------
(* DataCleaner.is_non_food_product *)

food_keywords ==
    << <<"r", "a", "m", "e", "n">>, <<"t", "s", "u", "k", "e", "m", "e", "n">>, <<"n", "o", "o", "d", "l", "e">>, <<"s", "o", "b", "a">>, <<"c", "h", "a", "s", "h", "u">>, <<"p", "o", "r", "k">>, <<"c", "h", "i", "c", "k", "e", "n">>,
       <<"e", "g", "g">>, <<"m", "e", "n", "m", "a">>, <<"m", "i", "z", "u", "n", "a">>, <<"n", "o", "r", "i">>, <<"y", "u", "z", "u">>, <<"s", "h", "i", "o">>, <<"s", "h", "o", "y", "u">>, <<"s", "o", "u", "p">>,
       <<"b", "r", "o", "t", "h">>, <<"h", "o", "t", "p", "o", "t">>, <<"n", "a", "b", "e">>, <<"m", "e", "a", "t">>, <<"m", "e", "a", "t", "b", "a", "l", "l">>, <<"b", "a", "m", "b", "o", "o">>, <<"s", "p", "i", "c", "y">>,
       <<"s", "e", "a", "s", "o", "n", "e", "d">>, <<"i", "n", "g", "r", "e", "d", "i", "e", "n", "t">>, <<"d", "u", "c", "k">>, <<"c", "h", "a", "r", " ", "s", "i", "u">>, <<"n", "i", "t", "a", "m", "a", "g", "o">>, <<"g", "o", "h", "a", "n">>,
       <<"r", "o", "a", "s", "t">>, <<"f", "i", "l", "l", "e", "t">>, <<"c", "h", "a", "r", "r", "e", "d">> >>

non_food_patterns_in_title ==
    << <<"o", "r", "i", "g", "i", "n", "a", "l", " ", "r", "a", "m", "e", "n", " ", "b", "o", "w", "l">>, <<"o", "r", "i", "g", "i", "n", "a", "l", " ", "b", "o", "w", "l">>, <<"h", "a", "l", "f", " ", "r", "a", "m", "e", "n", " ", "b", "o", "w", "l">>,
       <<"o", "r", "i", "g", "i", "n", "a", "l", " ", "m", "u", "g">>, <<"o", "r", "i", "g", "i", "n", "a", "l", " ", "t", "o", "k", "k", "u", "r", "i">>, <<"r", "a", "m", "e", "n", " ", "t", "e", "b", "o">>,
       <<"t", "-", "s", "h", "i", "r", "t">>, <<"t", "s", "h", "i", "r", "t">>, <<"s", "o", "c", "k", "s">>, <<"a", "p", "r", "o", "n">>, <<"t", "y", "p", "o", "g", "r", "a", "p", "h", "y", " ", "t", "-", "s", "h", "i", "r", "t">>,
       <<"g", "i", "f", "t", " ", "w", "r", "a", "p", "p", "i", "n", "g">>, <<"n", "o", "s", "h", "i">>, <<"e", "c", "o", " ", "b", "a", "g">>, <<"u", "m", "b", "r", "e", "l", "l", "a">>, <<"t", "h", "e", "r", "m", "o", "s">>,
       <<"p", "i", "n", " ", "b", "a", "d", "g", "e">>, <<"c", "h", "a", "r", "m">>, <<"k", "e", "y", "c", "h", "a", "i", "n">>, <<"2", "0", "t", "h", " ", "a", "n", "n", "i", "v", "e", "r", "s", "a", "r", "y">> >>

non_food_patterns_anywhere ==
    << <<"a", "f", "u", "r", "i", " ", "o", "r", "i", "g", "i", "n", "a", "l", " ", "r", "i", "c", "e", " ", "b", "o", "w", "l">>, <<"o", "r", "i", "g", "i", "n", "a", "l", " ", "r", "i", "c", "e", " ", "b", "o", "w", "l">> >>

\* the four keyword lists of non_food_keywords, in the order of the dict
non_food_keywords ==
    << <<"o", "r", "i", "g", "i", "n", "a", "l", " ", "b", "o", "w", "l">>, <<"o", "r", "i", "g", "i", "n", "a", "l", " ", "m", "u", "g">>, <<"o", "r", "i", "g", "i", "n", "a", "l", " ", "t", "o", "k", "k", "u", "r", "i">>, <<"r", "a", "m", "e", "n", " ", "t", "e", "b", "o">>,
       <<"r", "i", "c", "e", " ", "b", "o", "w", "l">>, <<"h", "a", "l", "f", " ", "r", "a", "m", "e", "n", " ", "b", "o", "w", "l">>,
       <<"t", "-", "s", "h", "i", "r", "t">>, <<"t", "s", "h", "i", "r", "t">>, <<"s", "h", "i", "r", "t">>, <<"c", "a", "p">>, <<"h", "a", "t">>, <<"u5E3D", "u5B50">>, <<"s", "o", "c", "k", "s">>, <<"a", "p", "r", "o", "n">>,
       <<"s", "w", "e", "a", "t", "s", "h", "i", "r", "t">>, <<"h", "o", "o", "d", "i", "e">>,
       <<"g", "i", "f", "t", " ", "w", "r", "a", "p", "p", "i", "n", "g">>, <<"n", "o", "s", "h", "i">>, <<"t", "o", "w", "e", "l">>, <<"u6BDB", "u5DFE">>, <<"e", "c", "o", " ", "b", "a", "g">>, <<"u", "m", "b", "r", "e", "l", "l", "a">>,
       <<"t", "h", "e", "r", "m", "o", "s">>, <<"p", "i", "n">>, <<"b", "a", "d", "g", "e">>, <<"c", "h", "a", "r", "m">>, <<"k", "e", "y", "c", "h", "a", "i", "n">>, <<"u30AD", "u30FC", "u30DB", "u30EB", "u30C0", "u30FC">>, <<"p", "o", "s", "t", "e", "r">>,
       <<"c", "a", "l", "e", "n", "d", "a", "r">>, <<"u30AB", "u30EC", "u30F3", "u30C0", "u30FC">>,
       <<"s", "t", "i", "c", "k", "e", "r">>, <<"b", "o", "o", "k">>, <<"u672C">>, <<"m", "a", "g", "a", "z", "i", "n", "e">>, <<"u96D1", "u8A8C">> >>

\* the title patterns looked for in the title and the content together
is_non_food_product_anywhere(article) ==
    LET title == Lower(Get(article, "title"))
        content == Lower(Get(article, "content"))
        combined == title \o <<" ">> \o content
    IN  IF AnyIn(food_keywords, combined)
        THEN \/ AnyIn(non_food_patterns_in_title, combined)
             \/ AnyIn(non_food_patterns_anywhere, combined)
        ELSE AnyIn(non_food_keywords, combined)

is_non_food_product(article) ==
    LET title == Lower(Get(article, "title"))
        content == Lower(Get(article, "content"))
        combined == title \o <<" ">> \o content
    IN  IF AnyIn(food_keywords, combined)
        THEN \/ AnyIn(non_food_patterns_in_title, title)
             \/ AnyIn(non_food_patterns_anywhere, combined)
        ELSE AnyIn(non_food_keywords, combined)

----------------------------------------------------------------------------
(* DataCleaner.is_valid_article *)

SectionMenu  == <<"M", "e", "n", "u">>
SectionStore == <<"S", "t", "o", "r", "e", " ", "I", "n", "f", "o", "r", "m", "a", "t", "i", "o", "n">>

MinLengthStore == 20
MinLengthOther == 50

\* without the exception for Menu records: their content is measured too
is_valid_article_by_length(article) ==
    LET title == Strip(Get(article, "title"))
        content == Get(article, "content")
        section == Get(article, "section")
    IN  IF title = <<>> THEN FALSE
        ELSE Len(content) >= (IF section = SectionStore THEN MinLengthStore
                              ELSE MinLengthOther)

is_valid_article(article) ==
    LET title == Strip(Get(article, "title"))
        content == Get(article, "content")
        section == Get(article, "section")
    IN  IF title = <<>> THEN FALSE
        ELSE IF section = SectionMenu THEN TRUE
        ELSE Len(content) >= (IF section = SectionStore THEN MinLengthStore
                              ELSE MinLengthOther)

----------------------------------------------------------------------------
(* DataCleaner.clean_article *)

introduction_keywords ==
    << <<"b", "r", "o", "t", "h">>, <<"c", "h", "a", "s", "h", "u">>, <<"n", "o", "r", "i">>, <<"e", "g", "g">>, <<"y", "u", "z", "u">>, <<"m", "e", "n", "m", "a">>, <<"m", "i", "z", "u", "n", "a">>,
       <<"d", "a", "s", "h", "i">>, <<"s", "h", "o", "y", "u">>, <<"c", "h", "i", "c", "k", "e", "n">>, <<"n", "i", "t", "a", "m", "a", "g", "o">>, <<"n", "e", "g", "i">> >>

IntroMinLen == 20

\* a line that reads as an introduction (lines 246-249)
IsIntroductionLine(line) ==
    /\ Contains(line, <<",">>)
    /\ Len(line) > IntroMinLen
    /\ AnyIn(introduction_keywords, Lower(line))

\* the last line of the content that reads as an introduction, '' if none
ExtractIntroduction(content) ==
    LET lines == Split(content, "\n")
        hits == {i \in 1..Len(lines) : IsIntroductionLine(Strip(lines[i]))}
    IN  IF hits = {} THEN <<>> ELSE Strip(lines[Max(hits)])

TagOthers == <<"o", "t", "h", "e", "r", "s">>
CategoryOthers == <<"O", "t", "h", "e", "r", "s">>

\* [tag.strip() for tag in tags if tag.strip()]
StripTagList(tags) ==
    SelectSeq([i \in 1..Len(tags) |-> Strip(tags[i])], LAMBDA t : t # <<>>)

\* clean_article raises when the price calls do (lines 224 and 226)
clean_article_raises(article) ==
    /\ "price" \in DOMAIN article
    /\ article["price"] # <<>>
    /\ \/ clean_price(article["price"]) = Raised
       \/ get_price_range(clean_price(article["price"])) = Raised

\* the stripped section of the cleaned record (line 208)
CleanedSection(article) == Strip(Get(article, "section"))

\* lines 235-251: the introduction given, else the one read from the content
CleanedIntroduction(article) ==
    IF "introduction" \in DOMAIN article /\ Strip(article["introduction"]) # <<>>
    THEN Strip(article["introduction"])
    ELSE IF clean_text(Get(article, "content")) # <<>> /\ CleanedSection(article) = SectionMenu
         THEN ExtractIntroduction(clean_text(Get(article, "content")))
    ELSE <<>>

\* lines 257-265: the stripped tags, 'others' appended for a non-food product
CleanedTags(article) ==
    LET tags == IF "tags" \in DOMAIN article /\ article["tags"] # <<>>
                THEN StripTagList(article["tags"]) ELSE <<>>
    IN  IF /\ CleanedSection(article) = SectionMenu
           /\ is_non_food_product(article)
           /\ ~InSeq(TagOthers, tags)
        THEN Append(tags, TagOthers) ELSE tags

\* the category set only when the record has none: a record that comes with
\* a menu_category would keep it
ForcedOthers_setdefault(article) ==
    /\ CleanedSection(article) = SectionMenu
    /\ InSeq(TagOthers, CleanedTags(article))
    /\ "menu_category" \notin DOMAIN article

\* lines 268-269: menu_category is forced to 'Others'
ForcedOthers(article) ==
    CleanedSection(article) = SectionMenu /\ InSeq(TagOthers, CleanedTags(article))

\* the keys of the cleaned record
CleanedKeys(article) ==
    {"url", "title", "content", "section", "price", "price_range", "tags"}
        \cup (IF "date" \in DOMAIN article /\ article["date"] # <<>> THEN {"date"} ELSE {})
        \cup ({"store_name", "menu_item", "menu_category"} \cap DOMAIN article)
        \cup (IF CleanedIntroduction(article) # <<>> THEN {"introduction"} ELSE {})
        \cup (IF ForcedOthers(article) THEN {"menu_category"} ELSE {})

HasPrice(article) == "price" \in DOMAIN article /\ article["price"] # <<>>

clean_article(article) ==
    [k \in CleanedKeys(article) |->
        CASE k = "url"           -> Strip(Get(article, "url"))
          [] k = "title"         -> clean_text(Get(article, "title"))
          [] k = "content"       -> clean_text(Get(article, "content"))
          [] k = "section"       -> CleanedSection(article)
          [] k = "date"          -> Strip(article["date"])
          [] k = "store_name"    -> Strip(article["store_name"])
          [] k = "menu_item"     -> Strip(article["menu_item"])
          [] k = "menu_category" -> IF ForcedOthers(article) THEN CategoryOthers
                                    ELSE Strip(article["menu_category"])
          [] k = "price"         -> IF HasPrice(article) THEN clean_price(article["price"])
                                    ELSE <<>>
          [] k = "price_range"   -> IF HasPrice(article)
                                    THEN get_price_range(clean_price(article["price"]))
                                    ELSE <<>>
          [] k = "introduction"  -> CleanedIntroduction(article)
          [] k = "tags"          -> CleanedTags(article)]

----------------------------------------------------------------------------
(* DataCleaner.remove_duplicates: the identifier of one article *)

\* the identifier with the title added to it: two records of one key but
\* different titles would both be kept
identifier_with_title(article) ==
    Get(article, "url") \o <<":">> \o Get(article, "menu_category") \o <<":">>
        \o Get(article, "menu_item") \o <<":">> \o Get(article, "store_name")
        \o <<":">> \o Get(article, "title")

identifier(article) ==
    LET url == Get(article, "url")
        section == Get(article, "section")
    IN  IF section = SectionMenu
        THEN IF Get(article, "menu_item") # <<>>
             THEN url \o <<":">> \o Get(article, "menu_category") \o <<":">>
                      \o Get(article, "menu_item")
             ELSE url
        ELSE IF section = SectionStore
        THEN IF Get(article, "store_name") # <<>>
             THEN url \o <<":">> \o Get(article, "store_name")
             ELSE url
        ELSE url

----------------------------------------------------------------------------
(* The JSON files given to DataCleaner: up to MaxArticles records *)

Rec(url, title, content, section) ==
    [x \in {"url", "title", "content", "section"} |->
        CASE x = "url" -> url [] x = "title" -> title
          [] x = "content" -> content [] x = "section" -> section]

\* a Menu record as parse_menu_page builds it (scraper.py lines 204-215)
MenuRec(url, title, content, item, category) ==
    [x \in {"url", "title", "content", "section", "menu_item", "menu_category",
            "tags", "date"} |->
        CASE x = "url" -> url [] x = "title" -> title
          [] x = "content" -> content [] x = "section" -> SectionMenu
          [] x = "menu_item" -> item [] x = "menu_category" -> category
          [] x = "tags" -> <<<<"a", "f", "u", "r", "i">>>> [] x = "date" -> <<>>]

StoreRec(url, name, content) ==
    [x \in {"url", "title", "content", "section", "store_name"} |->
        CASE x = "url" -> url [] x = "title" -> name
          [] x = "content" -> content [] x = "section" -> SectionStore
          [] x = "store_name" -> name]

\* the record of the end-to-end scenario: title, content and section only
ScenarioRecord ==
    [x \in {"title", "content", "section"} |->
        CASE x = "title"   -> <<"<", "b", ">", "Y", "u", "z", "u", " ", "S", "h", "i", "o", " ", "R", "a", "m", "e", "n", "<", "/", "b", ">">>
          [] x = "content" -> <<"A", "F", "U", "R", "I", " ", "Y", "u", "z", "u", " ", "S", "h", "i", "o", " ", "R", "a", "m", "e", "n", "\n", "\n", "b", "r", "o", "t", "h", ",", " ", "c", "h", "a", "s", "h", "u", ",", " ", "n", "o", "r", "i", ",", " ", "e", "g", "g">>
          [] x = "section" -> SectionMenu]

UrlMenu   == <<"m">>
UrlStores == <<"s">>

LongText == <<"A", "F", "U", "R", "I", " ", "w", "a", "s", " ", "b", "o", "r", "n", " ", "a", "t", " ", "t", "h", "e", " ", "f", "o", "o", "t", " ", "o", "f", " ", "M", "t", ".", " ", "A", "f", "u", "r", "i", " ", "i", "n", " ", "K", "a", "n", "a", "g", "a", "w", "a", ".">>

InputRecords ==
    { ScenarioRecord,
      Put(ScenarioRecord, "url", UrlMenu),
      MenuRec(UrlMenu, <<"N", "o", "r", "i">>, <<>>, <<"N", "o", "r", "i">>, <<"S", "i", "d", "e", " ", "D", "i", "s", "h", "e", "s">>),
      MenuRec(UrlMenu, <<"N", "o", "r", "i", " ", "(", "s", "e", "a", "w", "e", "e", "d", ")">>, <<"A", "F", "U", "R", "I", " ", "N", "o", "r", "i", "<", "b", "r", ">">>, <<" ", "N", "o", "r", "i">>, <<"S", "i", "d", "e", " ", "D", "i", "s", "h", "e", "s">>),
      MenuRec(UrlMenu, <<"A", "F", "U", "R", "I", " ", "O", "r", "i", "g", "i", "n", "a", "l", " ", "M", "u", "g">>, <<"a", " ", "m", "u", "g", ",", " ", "n", "o", "t", " ", "p", "o", "r", "k">>, <<"M", "u", "g">>, <<"R", "a", "m", "e", "n">>),
      MenuRec(UrlMenu, <<"E", "c", "o", " ", "B", "a", "g">>, <<"a", " ", "b", "a", "g">>, <<"E", "c", "o", " ", "B", "a", "g">>, <<"D", "r", "i", "n", "k", "s">>),
      MenuRec(UrlMenu, <<"M", "e", "n", "m", "a">>, <<"b", "a", "m", "b", "o", "o">>, <<"<", "b", ">", "M", "e", "n", "m", "a", "<", "/", "b", ">">>, <<"S", "i", "d", "e", " ", "D", "i", "s", "h", "e", "s">>),
      Rec(UrlStores, <<"A", "F", "U", "R", "I", " ", "T", "-", "s", "h", "i", "r", "t">>, LongText, <<"B", "r", "a", "n", "d", " ", "I", "n", "f", "o", "r", "m", "a", "t", "i", "o", "n">>),
      MenuRec(UrlMenu, <<"a", " ", "b">>, <<"&", "l", "t", ";", "p", "&", "g", "t", ";">>, <<"c">>, <<"a", ":", "b">>),
      MenuRec(UrlMenu, <<"a", " ", "b">>, <<>>, <<"b", ":", "c">>, <<"a">>),
      MenuRec(UrlMenu, <<"<", "b", "r", ">">>, <<"x">>, <<"c">>, <<"a">>),
      MenuRec(<<>>, <<"G", "o", "h", "a", "n">>, <<"r", "i", "c", "e">>, <<>>, <<>>),
      Put(Rec(UrlMenu, <<"S", "o", "u", "p">>, <<>>, SectionMenu), "price", <<"FWYEN", "1", ",", "0", "0", "0">>),
      Put(Rec(UrlMenu, <<"T", "a", "r", "e">>, <<>>, SectionMenu), "price", <<"YEN", ",">>),
      Rec(UrlMenu, <<>>, <<"x">>, SectionMenu),
      StoreRec(UrlStores, <<"E", "b", "i", "s", "u">>, <<" ", " ", " ", " ", " ", " ", " ", " ", " ", " ", " ", " ", " ", " ", " ", " ", " ", " ", " ", " ">>),
      StoreRec(UrlStores, <<"E", "b", "i", "s", "u">>, <<"1", "-", "1", "-", "7", " ", "E", "b", "i", "s", "u", ",", " ", "T", "o", "k", "y", "o", " ", "T", "E", "L", " ", "0", "3">>),
      StoreRec(UrlStores, <<"H", "a", "r", "a", "j", "u", "k", "u">>, <<"<", "p", ">", "<", "/", "p", ">", "<", "p", ">", "<", "/", "p", ">", "<", "p", ">", "<", "/", "p", ">">>),
      Rec(UrlStores, <<"S", "t", "o", "r", "e", "s">>, <<"A", "F", "U", "R", "I", " ", "s", "t", "o", "r", "e", "s", " ", "i", "n", " ", "J", "a", "p", "a", "n">>, SectionStore),
      Rec(UrlMenu, <<"A", "b", "o", "u", "t">>, LongText, <<"B", "r", "a", "n", "d", " ", "I", "n", "f", "o", "r", "m", "a", "t", "i", "o", "n">>),
      Rec(UrlStores, <<"A", "b", "o", "u", "t">>, <<"t", "o", "o", " ", "s", "h", "o", "r", "t">>, <<"B", "r", "a", "n", "d", " ", "I", "n", "f", "o", "r", "m", "a", "t", "i", "o", "n">>) }

InputFiles == UNION {[1..k -> InputRecords] : k \in 0..MaxArticles}

----------------------------------------------------------------------------
(* RamenScraper.is_descriptive_text *)

\* str.upper() on the letters of the model
UpperChar(c) ==
    IF \E i \in 1..26 : LowerCase[i] = c
    THEN UpperCase[CHOOSE i \in 1..26 : LowerCase[i] = c]
    ELSE c

Upper(s) == [i \in 1..Len(s) |-> UpperChar(s[i])]

\* s[:n]
Prefix(s, n) == SubSeq(s, 1, Min({n, Len(s)}))

known_menu_items ==
    << <<"Y", "u", "z", "u", " ", "S", "h", "i", "o", " ", "R", "a", "m", "e", "n">>, <<"Y", "u", "z", "u", " ", "S", "h", "o", "y", "u", " ", "R", "a", "m", "e", "n">>, <<"S", "h", "i", "o", " ", "R", "a", "m", "e", "n">>, <<"S", "h", "o", "y", "u", " ", "R", "a", "m", "e", "n">>,
       <<"Y", "u", "z", "u", " ", "R", "a", "t", "a", "n", " ", "R", "a", "m", "e", "n">>, <<"R", "a", "i", "n", "b", "o", "w", " ", "V", "e", "g", "a", "n", " ", "R", "a", "m", "e", "n">>, <<"S", "u", "m", "m", "e", "r", " ", "L", "i", "m", "i", "t", "e", "d", " ", "C", "o", "l", "d", " ", "Y", "u", "z", "u", " ", "S", "h", "i", "o", " ", "R", "a", "m", "e", "n">>,
       <<"A", "m", "a", "-", "t", "s", "u", "y", "u", " ", "T", "s", "u", "k", "e", "m", "e", "n">>, <<"Y", "u", "z", "u", "-", "t", "s", "u", "y", "u", " ", "T", "s", "u", "k", "e", "m", "e", "n">>, <<"K", "a", "r", "a", "-", "t", "s", "u", "y", "u", " ", "T", "s", "u", "k", "e", "m", "e", "n">>,
       <<"Y", "u", "z", "u", "-", "k", "a", "r", "a", "-", "t", "s", "u", "y", "u", " ", "T", "s", "u", "k", "e", "m", "e", "n">>,
       <<"G", "o", "k", "u", "b", "o", "s", "o", " ", "M", "e", "n">>, <<"T", "e", "m", "o", "m", "i", " ", "M", "e", "n">>, <<"K", "o", "n", "n", "y", "a", "k", "u", " ", "M", "e", "n">>,
       <<"A", "b", "u", "r", "i", " ", "K", "o", "r", "o", " ", "P", "o", "r", "k", " ", "C", "h", "a", "s", "h", "u", " ", "G", "o", "h", "a", "n">>, <<"P", "o", "r", "k", " ", "N", "i", "k", "u", " ", "G", "o", "h", "a", "n">>, <<"H", "o", "n", "g", "a", "r", "e", "b", "u", "s", "h", "i", " ", "O", "k", "a", "k", "a", " ", "G", "o", "h", "a", "n">>,
       <<"T", "a", "r", "e", " ", "G", "o", "h", "a", "n">>, <<"G", "o", "h", "a", "n">>, <<"P", "o", "r", "k", " ", "A", "b", "u", "r", "i", " ", "C", "h", "a", "s", "h", "u">>, <<"K", "a", "k", "u", "-", "n", "i", " ", "C", "h", "a", "s", "h", "u">>,
       <<"N", "i", "t", "a", "m", "a", "g", "o">>, <<"M", "e", "n", "m", "a">>, <<"N", "o", "r", "i">>, <<"M", "i", "z", "u", "n", "a">>, <<"N", "o", "r", "i", " ", "7", " ", "p", "i", "e", "c", "e", "s">>,
       <<"D", "r", "a", "f", "t", " ", "B", "e", "e", "r">>, <<"W", "h", "i", "s", "k", "y", " ", "S", "o", "d", "a", " ", "A", "F", "U", "R", "I", "'", "s", " ", "s", "t", "y", "l", "e">>, <<"J", "a", "p", "a", "n", "e", "s", "e", " ", "S", "A", "K", "E">> >>

descriptive_patterns ==
    << <<"u304A", "u9078", "u3073">>, <<"u304A", "u697D", "u3057", "u307F">>, <<"u3044", "u305F", "u3060", "u3051", "u307E", "u3059">>, <<"u3054", "u7528", "u610F">>, <<"u3054", "u5909", "u66F4">>,
       <<"u306F", "u3001">>, <<"u306E", "u91CF", "u3092">>, <<"u306E", "u9EBA", "u306F">>, <<"u306E", "u5589", "u8D8A", "u3057">>, <<"u3092", "u6700", "u5927", "u9650", "u306B">>,
       <<"u304B", "u3089">>, <<"u3078">>, <<"u306A", "u3069">>, <<"u2661">>, <<"u3002">>, <<"u3001">>,
       <<"u9078", "u3073">>, <<"u5909", "u66F4">>, <<"u7528", "u610F">>, <<"u304A", "u53EC", "u3057", "u4E0A", "u304C", "u308A">>, <<"u304A", "u597D", "u307F", "u3067">> >>

descriptive_prefixes ==
    << <<"u9EBA", "u306F">>, <<"u3089", "u30FC", "u3081", "u3093", "u306E">>, <<"u3064", "u3051", "u9EBA", "u306E">>, <<"u9D8F", "u6CB9", "u306E">>, <<"A", "F", "U", "R", "I", "u306E">>, <<"A", "F", "U", "R", "I", "u304C">>, <<"u3064", "u308B", "u3064", "u308B", "u306E">> >>

\* sum(1 for pattern in descriptive_patterns if pattern in text)
pattern_count(t) ==
    Cardinality({i \in 1..Len(descriptive_patterns) : Contains(t, descriptive_patterns[i])})

\* the whitelist asked for the candidate itself only, not for what it
\* begins with
is_descriptive_text_exact_only(t) ==
    IF InSeq(t, known_menu_items) THEN FALSE
    ELSE IF \E i \in 1..Len(descriptive_prefixes) : StartsWith(t, descriptive_prefixes[i])
    THEN TRUE
    ELSE pattern_count(t) >= 2 \/ Len(t) > 60

is_descriptive_text(t) ==
    IF \/ InSeq(t, known_menu_items)
       \/ \E i \in 1..Len(known_menu_items) :
              Len(known_menu_items[i]) > 10 /\ StartsWith(t, known_menu_items[i])
    THEN FALSE
    ELSE IF \E i \in 1..Len(descriptive_prefixes) : StartsWith(t, descriptive_prefixes[i])
    THEN TRUE
    ELSE IF pattern_count(t) >= 2
    THEN TRUE
    ELSE IF /\ Len(t) > 60
            /\ ~\E i \in 1..Len(known_menu_items) :
                   Len(known_menu_items[i]) > 20 /\ Contains(t, known_menu_items[i])
    THEN TRUE
    ELSE IF /\ Contains(t, <<"u3002">>) \/ Contains(t, <<"u3001">>)
            /\ Len(t) > 30
            /\ ~AnyIn(known_menu_items, Prefix(t, 50))
    THEN TRUE
    ELSE FALSE

----------------------------------------------------------------------------
(* RamenScraper.parse_menu_page: the page and the shared pieces *)

\* the dict categories, in the order of its keys
categories ==
    << [name |-> <<"R", "a", "m", "e", "n">>,
        keywords |-> << <<"Y", "u", "z", "u", " ", "S", "h", "i", "o", " ", "R", "a", "m", "e", "n">>, <<"Y", "u", "z", "u", " ", "S", "h", "o", "y", "u", " ", "R", "a", "m", "e", "n">>, <<"S", "h", "i", "o", " ", "R", "a", "m", "e", "n">>,
                        <<"S", "h", "o", "y", "u", " ", "R", "a", "m", "e", "n">>, <<"Y", "u", "z", "u", " ", "R", "a", "t", "a", "n", " ", "R", "a", "m", "e", "n">>, <<"R", "a", "i", "n", "b", "o", "w", " ", "V", "e", "g", "a", "n", " ", "R", "a", "m", "e", "n">>,
                        <<"S", "u", "m", "m", "e", "r", " ", "L", "i", "m", "i", "t", "e", "d">>, <<"S", "e", "a", "s", "o", "n", "a", "l", " ", "L", "i", "m", "i", "t", "e", "d">>,
                        <<"A", "m", "a", "-", "t", "s", "u", "y", "u", " ", "T", "s", "u", "k", "e", "m", "e", "n">>, <<"Y", "u", "z", "u", "-", "t", "s", "u", "y", "u", " ", "T", "s", "u", "k", "e", "m", "e", "n">>,
                        <<"K", "a", "r", "a", "-", "t", "s", "u", "y", "u", " ", "T", "s", "u", "k", "e", "m", "e", "n">>, <<"Y", "u", "z", "u", "-", "k", "a", "r", "a", "-", "t", "s", "u", "y", "u", " ", "T", "s", "u", "k", "e", "m", "e", "n">>,
                        <<"u3064", "u3051", "u9EBA">>, <<"T", "s", "u", "k", "e", "m", "e", "n">> >>],
       [name |-> <<"C", "h", "i", "-", "y", "u">>,
        keywords |-> << <<"C", "h", "i", "-", "y", "u">>, <<"u9D8F", "u6CB9">>, <<"T", "a", "n", "r", "e", "i">>, <<"M", "a", "r", "o", "a", "j", "i">>, <<"u6DE1", "u9E97">>, <<"u307E", "u308D", "u5473">> >>],
       [name |-> <<"N", "o", "o", "d", "l", "e", "s">>,
        keywords |-> << <<"G", "o", "k", "u", "b", "o", "s", "o", " ", "M", "e", "n">>, <<"T", "e", "m", "o", "m", "i", " ", "M", "e", "n">>, <<"K", "o", "n", "n", "y", "a", "k", "u", " ", "M", "e", "n">>, <<"u9EBA">> >>],
       [name |-> <<"S", "i", "d", "e", " ", "D", "i", "s", "h", "e", "s">>,
        keywords |-> << <<"C", "h", "a", "s", "h", "u">>, <<"N", "i", "t", "a", "m", "a", "g", "o">>, <<"M", "e", "n", "m", "a">>, <<"N", "o", "r", "i">>, <<"M", "i", "z", "u", "n", "a">>, <<"G", "o", "h", "a", "n">>,
                        <<"u30C1", "u30E3", "u30FC", "u30B7", "u30E5", "u30FC">>, <<"u3054", "u306F", "u3093">> >>],
       [name |-> <<"D", "r", "i", "n", "k", "s">>,
        keywords |-> << <<"B", "e", "e", "r">>, <<"W", "h", "i", "s", "k", "y">>, <<"S", "A", "K", "E">>, <<"u30D3", "u30FC", "u30EB">>, <<"u9152">> >> ] >>

\* item_category = None
NoCategory == <<"None">>

\* the first category one of whose keywords is in the text (lines 184-187)
keyword_category(t) ==
    LET hits == {i \in 1..Len(categories) : AnyIn(categories[i].keywords, t)}
    IN  IF hits = {} THEN NoCategory ELSE categories[Min(hits)].name

side_dish_names ==
    << <<"N", "o", "r", "i">>, <<"M", "e", "n", "m", "a">>, <<"M", "i", "z", "u", "n", "a">>, <<"N", "i", "t", "a", "m", "a", "g", "o">>, <<"C", "h", "a", "s", "h", "u">>, <<"P", "o", "r", "k", " ", "A", "b", "u", "r", "i", " ", "C", "h", "a", "s", "h", "u">>,
       <<"K", "a", "k", "u", "-", "n", "i", " ", "C", "h", "a", "s", "h", "u">> >>

paragraph_keywords ==
    << <<"R", "a", "m", "e", "n">>, <<"T", "s", "u", "k", "e", "m", "e", "n">>, <<"C", "h", "a", "s", "h", "u">>, <<"M", "e", "n">>, <<"G", "o", "h", "a", "n">>, <<"B", "e", "e", "r">>,
       <<"u3089", "u30FC", "u3081", "u3093">>, <<"u3064", "u3051", "u9EBA">>, <<"u30C1", "u30E3", "u30FC", "u30B7", "u30E5", "u30FC">>, <<"u9EBA">>, <<"u3054", "u306F", "u3093">> >>

\* 'Tsukemen' in item_name or 'tsukemen' in item_name.lower()
names_tsukemen(item_name) ==
    Contains(item_name, <<"T", "s", "u", "k", "e", "m", "e", "n">>) \/ Contains(Lower(item_name), <<"t", "s", "u", "k", "e", "m", "e", "n">>)

\* f"AFURI {text}" if "AFURI" not in text.upper() else text
content_with_afuri(t) ==
    IF Contains(Upper(t), <<"A", "F", "U", "R", "I">>) THEN t ELSE <<"A", "F", "U", "R", "I", " ">> \o t

\* the dict menu_data of the first two passes (lines 204-215, 249-260)
menu_data(url, item_name, content, item_category) ==
    [x \in {"url", "title", "content", "section", "menu_item", "menu_category",
            "date", "author", "tags", "categories"} |->
        CASE x = "url" -> url
          [] x = "title" -> item_name
          [] x = "content" -> content
          [] x = "section" -> SectionMenu
          [] x = "menu_item" -> item_name
          [] x = "menu_category" -> item_category
          [] x = "date" -> <<>>
          [] x = "author" -> <<>>
          [] x = "tags" -> <<<<"a", "f", "u", "r", "i">>>>
          [] x = "categories" -> <<>>]

\* any(item['menu_item'] == item_name for item in menu_items)
emitted(items, item_name) == \E i \in 1..Len(items) : items[i]["menu_item"] = item_name

\* soup.get_text() of a page whose elements are siblings, one per line
get_text(pg) == Join([i \in 1..Len(pg) |-> pg[i].text], "\n")

----------------------------------------------------------------------------
(* parse_menu_page: the list-item pass and the paragraph pass *)

MinListItem == 10
MinParagraph == 20
MaxItemName == 50

\* the records one <li> adds (lines 178-216): none or one
list_item_records(url, raw) ==
    LET t == Strip(raw)
        item_category == keyword_category(t)
        item_name == IF Contains(t, <<"\n">>)
                     THEN Prefix(Strip(Split(t, "\n")[1]), MaxItemName)
                     ELSE Prefix(t, MaxItemName)
    IN  IF t = <<>> \/ Len(t) < MinListItem THEN <<>>
        ELSE IF item_category = NoCategory THEN <<>>
        ELSE IF is_descriptive_text(item_name) THEN <<>>
        ELSE << menu_data(url, item_name, content_with_afuri(t),
                    IF InSeq(item_name, side_dish_names) THEN <<"S", "i", "d", "e", " ", "D", "i", "s", "h", "e", "s">>
                    ELSE IF names_tsukemen(item_name) THEN <<"T", "s", "u", "k", "e", "m", "e", "n">>
                    ELSE item_category) >>

\* the records one <p> adds (lines 220-261): none or one
paragraph_records(url, raw, items) ==
    LET t == Strip(raw)
        item_name == Prefix(Strip(Split(t, "\n")[1]), MaxItemName)
        by_text == keyword_category(t)
    IN  IF t = <<>> \/ Len(t) < MinParagraph THEN <<>>
        ELSE IF ~AnyIn(paragraph_keywords, t) THEN <<>>
        ELSE IF is_descriptive_text(item_name) THEN <<>>
        ELSE IF emitted(items, item_name) THEN <<>>
        ELSE << menu_data(url, item_name, content_with_afuri(t),
                    IF names_tsukemen(item_name) THEN <<"T", "s", "u", "k", "e", "m", "e", "n">>
                    ELSE IF InSeq(item_name, side_dish_names) THEN <<"S", "i", "d", "e", " ", "D", "i", "s", "h", "e", "s">>
                    ELSE IF by_text = NoCategory THEN <<"R", "a", "m", "e", "n">>
                    ELSE by_text) >>

----------------------------------------------------------------------------
(* parse_menu_page: the named-entity sweep *)

menu_item_names ==
    << <<"Y", "u", "z", "u", " ", "S", "h", "i", "o", " ", "R", "a", "m", "e", "n">>, <<"Y", "u", "z", "u", " ", "S", "h", "o", "y", "u", " ", "R", "a", "m", "e", "n">>, <<"S", "h", "i", "o", " ", "R", "a", "m", "e", "n">>, <<"S", "h", "o", "y", "u", " ", "R", "a", "m", "e", "n">>,
       <<"Y", "u", "z", "u", " ", "R", "a", "t", "a", "n", " ", "R", "a", "m", "e", "n">>, <<"R", "a", "i", "n", "b", "o", "w", " ", "V", "e", "g", "a", "n", " ", "R", "a", "m", "e", "n">>, <<"S", "u", "m", "m", "e", "r", " ", "L", "i", "m", "i", "t", "e", "d", " ", "C", "o", "l", "d", " ", "Y", "u", "z", "u", " ", "S", "h", "i", "o", " ", "R", "a", "m", "e", "n">>,
       <<"A", "m", "a", "-", "t", "s", "u", "y", "u", " ", "T", "s", "u", "k", "e", "m", "e", "n">>, <<"Y", "u", "z", "u", "-", "t", "s", "u", "y", "u", " ", "T", "s", "u", "k", "e", "m", "e", "n">>, <<"K", "a", "r", "a", "-", "t", "s", "u", "y", "u", " ", "T", "s", "u", "k", "e", "m", "e", "n">>,
       <<"Y", "u", "z", "u", "-", "k", "a", "r", "a", "-", "t", "s", "u", "y", "u", " ", "T", "s", "u", "k", "e", "m", "e", "n">>,
       <<"G", "o", "k", "u", "b", "o", "s", "o", " ", "M", "e", "n">>, <<"T", "e", "m", "o", "m", "i", " ", "M", "e", "n">>, <<"K", "o", "n", "n", "y", "a", "k", "u", " ", "M", "e", "n">>,
       <<"A", "b", "u", "r", "i", " ", "K", "o", "r", "o", " ", "P", "o", "r", "k", " ", "C", "h", "a", "s", "h", "u", " ", "G", "o", "h", "a", "n">>, <<"P", "o", "r", "k", " ", "N", "i", "k", "u", " ", "G", "o", "h", "a", "n">>, <<"H", "o", "n", "g", "a", "r", "e", "b", "u", "s", "h", "i", " ", "O", "k", "a", "k", "a", " ", "G", "o", "h", "a", "n">>,
       <<"T", "a", "r", "e", " ", "G", "o", "h", "a", "n">>, <<"G", "o", "h", "a", "n">>, <<"P", "o", "r", "k", " ", "A", "b", "u", "r", "i", " ", "C", "h", "a", "s", "h", "u">>, <<"K", "a", "k", "u", "-", "n", "i", " ", "C", "h", "a", "s", "h", "u">>,
       <<"N", "i", "t", "a", "m", "a", "g", "o">>, <<"M", "e", "n", "m", "a">>, <<"N", "o", "r", "i", " ", "7", " ", "p", "i", "e", "c", "e", "s">>, <<"N", "o", "r", "i">>, <<"M", "i", "z", "u", "n", "a">>,
       <<"D", "r", "a", "f", "t", " ", "B", "e", "e", "r">>, <<"W", "h", "i", "s", "k", "y", " ", "S", "o", "d", "a", " ", "A", "F", "U", "R", "I", "'", "s", " ", "s", "t", "y", "l", "e">>, <<"J", "a", "p", "a", "n", "e", "s", "e", " ", "S", "A", "K", "E">> >>

\* list.sort(key=len, reverse=True): stable, names of one length keep their order
sort_by_len_reverse(names) ==
    LET rank(i) == 1 + Cardinality({j \in 1..Len(names) :
                        \/ Len(names[j]) > Len(names[i])
                        \/ Len(names[j]) = Len(names[i]) /\ j < i})
    IN  [k \in 1..Len(names) |-> names[CHOOSE i \in 1..Len(names) : rank(i) = k]]

sorted_names == sort_by_len_reverse(menu_item_names)

\* the characters beyond ASCII of the model that \w matches: the kana and
\* the kanji, not the punctuation
WordTokens ==
    { "u3044", "u304A", "u304B", "u304C", "u3051", "u3054", "u3057", "u3059",
      "u305F", "u3060", "u3064", "u3067", "u3068", "u3069", "u306A", "u306B",
      "u306E", "u306F", "u3073", "u3078", "u307E", "u307F", "u3081", "u3089",
      "u308A", "u308B", "u308D", "u3092", "u3093", "u30A2", "u30B2", "u30B7",
      "u30C1", "u30D3", "u30E3", "u30E5", "u30EB", "u30EC", "u30F3", "u30FC",
      "u4E0A", "u53EC", "u5473", "u5589", "u5831", "u5909", "u5927", "u597D",
      "u60C5", "u610F", "u624B", "u63C9", "u66F4", "u6700", "u697D", "u6CB9",
      "u6DE1", "u7528", "u7D30", "u8D8A", "u9078", "u9152", "u91CF", "u9650",
      "u9D8F", "u9E97", "u9EBA" }

\* \w of a str pattern, over the characters of the model
IsWordChar(c) ==
    \/ \E i \in 1..26 : UpperCase[i] = c \/ LowerCase[i] = c
    \/ c \in Digits
    \/ c = "_"
    \/ c \in WordTokens

\* \b at the 1-based offset i of t, the position before t[i]
word_boundary(t, i) ==
    LET before == i > 1 /\ i - 1 <= Len(t) /\ IsWordChar(t[i - 1])
        after  == i <= Len(t) /\ IsWordChar(t[i])
    IN  before # after

\* what may follow the name: (?:\s|$|[punctuation\n])
name_terminator(t, j) ==
    \/ j = Len(t) + 1
    \/ j = Len(t) /\ t[j] = "\n"
    \/ j <= Len(t) /\ (IsSpace(t[j]) \/ t[j] \in {"u3002", "u3001", "uFF0C", ",", "."})

\* re.search(r'\b' + re.escape(item_name) + r'(?:\s|$|[...])', text)
name_search(item_name, t) ==
    \E i \in 1..(Len(t) - Len(item_name) + 1) :
        /\ StartsWithAt(t, i, item_name)
        /\ word_boundary(t, i)
        /\ name_terminator(t, i + Len(item_name))

\* a longer known name that contains this one is in the text (lines 308-313)
should_skip(item_name, t) ==
    \E k \in 1..Len(sorted_names) :
        /\ sorted_names[k] # item_name
        /\ Len(sorted_names[k]) > Len(item_name)
        /\ Contains(sorted_names[k], item_name)
        /\ Contains(t, sorted_names[k])

\* a more specific item is already in menu_items (lines 286-292)
has_more_specific(items, item_name) ==
    \E i \in 1..Len(items) :
        LET existing_name == Get(items[i], "menu_item")
        IN  /\ existing_name # item_name
            /\ Contains(existing_name, item_name)
            /\ Len(existing_name) > Len(item_name)

section_markers ==
    << <<"u30A2", "u30EC", "u30EB", "u30B2", "u30F3", "u60C5", "u5831", "A", "l", "l", "e", "r", "g", "e", "n", " ", "i", "n", "f", "o", "r", "m", "a", "t", "i", "o", "n">>, <<"A", "l", "l", "e", "r", "g", "e", "n", " ", "i", "n", "f", "o", "r", "m", "a", "t", "i", "o", "n">>,
       <<"u30A2", "u30EC", "u30EB", "u30B2", "u30F3", "u60C5", "u5831">>, <<"*", " ", "A", "l", "l", " ", "o", "u", "r", " ", "r", "i", "c", "e">> >>

\* the line starts with another known name (lines 340-344)
is_another_menu_item(item_name, line) ==
    \E k \in 1..Len(sorted_names) :
        sorted_names[k] # item_name /\ StartsWith(line, sorted_names[k])

\* the loop of lines 330-354 from line i on, acc the lines kept so far
RECURSIVE relevant_lines(_, _, _, _)
relevant_lines(item_name, lines, i, acc) ==
    IF i > Len(lines) THEN acc
    ELSE LET line == Strip(lines[i])
         IN  IF line = <<>>
             THEN IF Len(acc) > 0 THEN acc
                  ELSE relevant_lines(item_name, lines, i + 1, acc)
             ELSE IF is_another_menu_item(item_name, line) THEN acc
             ELSE IF InSeq(line, section_markers) THEN acc
             ELSE relevant_lines(item_name, lines, i + 1, Append(acc, line))

\* text[item_name_index + len(item_name):].strip()
text_after_item(item_name, t) ==
    IF Find(t, item_name) = 0 THEN <<>>
    ELSE Strip(From(t, Find(t, item_name) + Len(item_name)))

MaxFallback == 500

relevant_content(item_name, t) ==
    LET after == text_after_item(item_name, t)
        kept == Strip(Join(relevant_lines(item_name, Split(after, "\n"), 1, <<>>), "\n"))
    IN  IF Find(t, item_name) = 0 THEN <<>>
        ELSE IF kept # <<>> THEN kept
        ELSE Strip(Prefix(after, MaxFallback))

item_content(item_name, t) ==
    IF Find(t, item_name) = 0 THEN t
    ELSE IF relevant_content(item_name, t) # <<>>
    THEN item_name \o <<"\n">> \o relevant_content(item_name, t)
    ELSE item_name

\* the chain of lines 367-382
sweep_category(item_name, t) ==
    IF names_tsukemen(item_name) THEN <<"T", "s", "u", "k", "e", "m", "e", "n">>
    ELSE IF /\ Contains(item_name, <<"M", "e", "n">>)
            /\ ~Contains(item_name, <<"T", "s", "u", "k", "e", "m", "e", "n">>)
            /\ ~Contains(item_name, <<"R", "a", "m", "e", "n">>)
    THEN <<"N", "o", "o", "d", "l", "e", "s">>
    ELSE IF Contains(item_name, <<"G", "o", "h", "a", "n">>) THEN <<"S", "i", "d", "e", " ", "D", "i", "s", "h", "e", "s">>
    ELSE IF \/ Contains(item_name, <<"B", "e", "e", "r">>)
            \/ Contains(item_name, <<"W", "h", "i", "s", "k", "y">>)
            \/ Contains(item_name, <<"S", "A", "K", "E">>)
    THEN <<"D", "r", "i", "n", "k", "s">>
    ELSE IF InSeq(item_name, side_dish_names) THEN <<"S", "i", "d", "e", " ", "D", "i", "s", "h", "e", "s">>
    ELSE IF Contains(t, <<"C", "h", "i", "-", "y", "u">>) \/ Contains(t, <<"u9D8F", "u6CB9">>) THEN <<"C", "h", "i", "-", "y", "u">>
    ELSE <<"R", "a", "m", "e", "n">>

sweep_introduction_keywords ==
    << <<"b", "r", "o", "t", "h">>, <<"c", "h", "a", "s", "h", "u">>, <<"n", "o", "r", "i">>, <<"e", "g", "g">>, <<"y", "u", "z", "u">>, <<"m", "e", "n", "m", "a">>, <<"m", "i", "z", "u", "n", "a">>, <<"d", "a", "s", "h", "i">>,
       <<"s", "h", "o", "y", "u">>, <<"c", "h", "i", "c", "k", "e", "n">>, <<"r", "i", "c", "e">>, <<"p", "o", "r", "k">>, <<"b", "e", "e", "f">>, <<"s", "e", "a", "w", "e", "e", "d">>, <<"g", "i", "n", "g", "e", "r">>,
       <<"n", "e", "g", "i">>, <<"o", "n", "i", "o", "n">> >>

\* the introduction of lines 388-401: the last line that reads as one
sweep_introduction(item_name, t) ==
    LET content_to_search == IF relevant_content(item_name, t) # <<>>
                             THEN relevant_content(item_name, t)
                             ELSE text_after_item(item_name, t)
        lines == Split(content_to_search, "\n")
        hits == {i \in 1..Len(lines) :
                    /\ Contains(Strip(lines[i]), <<",">>)
                    /\ Len(Strip(lines[i])) > 20
                    /\ AnyIn(sweep_introduction_keywords, Lower(Strip(lines[i])))}
    IN  IF content_to_search = <<>> \/ hits = {} THEN <<>>
        ELSE Strip(lines[Max(hits)])

\* the dict menu_data of the sweep (lines 403-415)
sweep_menu_data(url, item_name, t) ==
    [x \in {"url", "title", "content", "section", "menu_item", "menu_category",
            "introduction", "date", "author", "tags", "categories"} |->
        CASE x = "url" -> url
          [] x = "title" -> item_name
          [] x = "content" -> content_with_afuri(item_content(item_name, t))
          [] x = "section" -> SectionMenu
          [] x = "menu_item" -> item_name
          [] x = "menu_category" -> sweep_category(item_name, t)
          [] x = "introduction" -> sweep_introduction(item_name, t)
          [] x = "date" -> <<>>
          [] x = "author" -> <<>>
          [] x = "tags" -> <<<<"a", "f", "u", "r", "i">>>>
          [] x = "categories" -> <<>>]

\* soup.find_all(tags), in the order of the document
find_all(pg, tags) == SelectSeq(pg, LAMBDA e : e.tag \in tags)

\* the records one name of the sweep adds (lines 280-417): none or one
sweep_records(url, pg, items, item_name) ==
    LET elems == find_all(pg, {"p", "li", "div"})
        hits == {e \in 1..Len(elems) :
                    LET t == Strip(elems[e].text)
                    IN  /\ name_search(item_name, t)
                        /\ Len(t) > Len(item_name) + 10
                        /\ ~should_skip(item_name, t)}
    IN  IF emitted(items, item_name) THEN <<>>
        ELSE IF ~Contains(get_text(pg), item_name) THEN <<>>
        ELSE IF has_more_specific(items, item_name) THEN <<>>
        ELSE IF hits = {} THEN <<>>
        ELSE << sweep_menu_data(url, item_name, Strip(elems[Min(hits)].text)) >>

----------------------------------------------------------------------------
(* The pages given to parse_menu_page: up to MaxElems sibling elements *)

Elem(tag, t) == [tag |-> tag, text |-> t]

InputElements ==
    { Elem("li",  <<"N", "o", "r", "i", "\n", "c", "r", "i", "s", "p", "y", " ", "s", "e", "a", "w", "e", "e", "d">>),
      Elem("li",  <<"N", "o", "r", "i", " ", "7", " ", "p", "i", "e", "c", "e", "s", "\n", "s", "e", "v", "e", "n", " ", "s", "h", "e", "e", "t", "s", " ", "o", "f", " ", "s", "e", "a", "w", "e", "e", "d">>),
      Elem("div", <<" ", "N", "o", "r", "i", "\n", "c", "r", "i", "s", "p", "y", " ", "s", "e", "a", "w", "e", "e", "d">>),
      Elem("div", <<"N", "o", "r", "i", " ", "7", " ", "p", "i", "e", "c", "e", "s", "\n", "s", "e", "v", "e", "n", " ", "s", "h", "e", "e", "t", "s", " ", "o", "f", " ", "s", "e", "a", "w", "e", "e", "d">>),
      Elem("h3",  <<"N", "o", "r", "i", " ", "7", " ", "p", "i", "e", "c", "e", "s">>),
      Elem("p",   <<"Y", "u", "z", "u", " ", "S", "h", "i", "o", " ", "R", "a", "m", "e", "n", "\n", "c", "h", "i", "c", "k", "e", "n", " ", "b", "r", "o", "t", "h", ",", " ", "c", "h", "a", "s", "h", "u", ",", " ", "n", "o", "r", "i", ",", " ", "e", "g", "g", " ", "a", "n", "d", " ", "y", "u", "z", "u">>),
      Elem("div", <<"S", "h", "i", "o", " ", "R", "a", "m", "e", "n", "\n", "c", "l", "e", "a", "r", " ", "s", "o", "u", "p", " ", "w", "i", "t", "h", " ", "C", "h", "i", "-", "y", "u", "\n", "\n", "S", "h", "o", "y", "u", " ", "R", "a", "m", "e", "n", "\n", "s", "o", "y">>),
      Elem("p",   <<"u9EBA", "u306F", "u3001", "A", "F", "U", "R", "I", "u306E", "u7D30", "u9EBA", "u3068", "u624B", "u63C9", "u307F", "u9EBA", "u304B", "u3089", "u304A", "u9078", "u3073", "u3044", "u305F", "u3060", "u3051", "u307E", "u3059", "u3002">>),
      Elem("li",  <<"K", "a", "r", "a", "-", "t", "s", "u", "y", "u", " ", "T", "s", "u", "k", "e", "m", "e", "n", "\n", "s", "p", "i", "c", "y", " ", "d", "i", "p", "p", "i", "n", "g", " ", "n", "o", "o", "d", "l", "e", "s">>),
      Elem("div", <<"T", "a", "r", "e", " ", "G", "o", "h", "a", "n", "\n", "r", "i", "c", "e", " ", "w", "i", "t", "h", " ", "t", "a", "r", "e", ",", " ", "n", "e", "g", "i", " ", "a", "n", "d", " ", "g", "i", "n", "g", "e", "r", "\n", "A", "l", "l", "e", "r", "g", "e", "n", " ", "i", "n", "f", "o", "r", "m", "a", "t", "i", "o", "n">>),
      Elem("li",  <<"D", "r", "a", "f", "t", " ", "B", "e", "e", "r">>),
      Elem("div", <<"M", "e", "n", "m", "a", "\n", "M", "i", "z", "u", "n", "a", "\n", "f", "r", "e", "s", "h", " ", "g", "r", "e", "e", "n", "s", ",", " ", "c", "r", "i", "s", "p">>),
      Elem("p",   <<"A", "F", "U", "R", "I", " ", "M", "e", "n", "m", "a", " ", "a", "n", "d", " ", "M", "i", "z", "u", "n", "a", " ", "a", "r", "e", " ", "t", "o", "p", "p", "i", "n", "g", "s">>) }

InputPages == UNION {[1..k -> InputElements] : k \in 0..MaxElems}

----------------------------------------------------------------------------
(* RamenScraper.parse_store_information *)

\* the names of places of the first way to read a name (lines 496-501)
store_name_keywords ==
    << <<"u6075", "u6BD4", "u5BFF">>, <<"E", "b", "i", "s", "u">>, <<"u539F", "u5BBF">>, <<"H", "a", "r", "a", "j", "u", "k", "u">>, <<"u4E2D", "u76EE", "u9ED2">>, <<"N", "a", "k", "a", "m", "e", "g", "u", "r", "o">>,
       <<"u9EBB", "u5E03", "u5341", "u756A">>, <<"A", "z", "a", "b", "u", "j", "u", "b", "a", "n">>, <<"u516D", "u672C", "u6728">>, <<"R", "o", "p", "p", "o", "n", "g", "i">>, <<"u4E09", "u8ED2", "u8336", "u5C4B">>, <<"S", "a", "n", "g", "e", "n", "j", "a", "y", "a">>,
       <<"u65B0", "u5BBF">>, <<"S", "h", "i", "n", "j", "u", "k", "u">>, <<"u6A2A", "u6D5C">>, <<"Y", "o", "k", "o", "h", "a", "m", "a">>, <<"u5357", "u9752", "u5C71">>, <<"M", "i", "n", "a", "m", "i", "a", "o", "y", "a", "m", "a">>,
       <<"u8F9B", "u7D05">>, <<"k", "a", "r", "a", " ", "k", "u", "r", "e", "n", "a", "i">>, <<"u6709", "u697D", "u753A">>, <<"Y", "u", "r", "a", "k", "u", "c", "h", "o">> >>

\* the dict location_map, in the order of its keys (lines 515-541)
location_map ==
    << <<<<"u6075", "u6BD4", "u5BFF">>, <<"A", "F", "U", "R", "I", " ", "u6075", "u6BD4", "u5BFF">>>>,
       <<<<"E", "b", "i", "s", "u">>, <<"A", "F", "U", "R", "I", " ", "u6075", "u6BD4", "u5BFF">>>>,
       <<<<"u5343", "u99C4", "u30F6", "u8C37">>, <<"A", "F", "U", "R", "I", " ", "u539F", "u5BBF">>>>,
       <<<<"S", "e", "n", "d", "a", "g", "a", "y", "a">>, <<"A", "F", "U", "R", "I", " ", "u539F", "u5BBF">>>>,
       <<<<"u4E0A", "u76EE", "u9ED2">>, <<"A", "F", "U", "R", "I", " ", "u4E2D", "u76EE", "u9ED2">>>>,
       <<<<"K", "a", "m", "i", "m", "e", "g", "u", "r", "o">>, <<"A", "F", "U", "R", "I", " ", "u4E2D", "u76EE", "u9ED2">>>>,
       <<<<"N", "a", "k", "a", "m", "e", "g", "u", "r", "o">>, <<"A", "F", "U", "R", "I", " ", "u4E2D", "u76EE", "u9ED2">>>>,
       <<<<"u9EBB", "u5E03", "u5341", "u756A">>, <<"A", "F", "U", "R", "I", " ", "u9EBB", "u5E03", "u5341", "u756A">>>>,
       <<<<"A", "z", "a", "b", "u", "j", "u", "b", "a", "n">>, <<"A", "F", "U", "R", "I", " ", "u9EBB", "u5E03", "u5341", "u756A">>>>,
       <<<<"u516D", "u672C", "u6728", "4", "-", "9", "-", "4">>, <<"A", "F", "U", "R", "I", " ", "u516D", "u672C", "u6728", "u4EA4", "u5DEE", "u70B9">>>>,
       <<<<"u516D", "u672C", "u6728", "6", "-", "4", "-", "1">>, <<"A", "F", "U", "R", "I", " ", "u516D", "u672C", "u6728", "u30D2", "u30EB", "u30BA">>>>,
       <<<<"u4E09", "u8ED2", "u8336", "u5C4B">>, <<"A", "F", "U", "R", "I", " ", "u4E09", "u8ED2", "u8336", "u5C4B">>>>,
       <<<<"S", "a", "n", "g", "e", "n", "j", "a", "y", "a">>, <<"A", "F", "U", "R", "I", " ", "u4E09", "u8ED2", "u8336", "u5C4B">>>>,
       <<<<"u897F", "u65B0", "u5BBF", "1", "-", "1", "-", "5">>, <<"u65B0", "u5BBF", "u30EB", "u30DF", "u30CD">>>>,
       <<<<"N", "i", "s", "h", "i", "-", "S", "h", "i", "n", "j", "u", "k", "u">>, <<"u65B0", "u5BBF", "u30EB", "u30DF", "u30CD">>>>,
       <<<<"u897F", "u65B0", "u5BBF", "2", "u4E01", "u76EE", "6", "-", "1">>, <<"A", "F", "U", "R", "I", " ", "u65B0", "u5BBF", "u4F4F", "u53CB", "u30D3", "u30EB">>>>,
       <<<<"N", "i", "s", "h", "i", "-", "s", "h", "i", "n", "j", "u", "k", "u">>, <<"A", "F", "U", "R", "I", " ", "u65B0", "u5BBF", "u4F4F", "u53CB", "u30D3", "u30EB">>>>,
       <<<<"u5357", "u9752", "u5C71">>, <<"A", "F", "U", "R", "I", " ", "u5357", "u9752", "u5C71">>>>,
       <<<<"M", "i", "n", "a", "m", "i", "a", "o", "y", "a", "m", "a">>, <<"A", "F", "U", "R", "I", " ", "u5357", "u9752", "u5C71">>>>,
       <<<<"u6A2A", "u6D5C", "u30B8", "u30E7", "u30A4", "u30CA", "u30B9">>, <<"A", "F", "U", "R", "I", " ", "u6A2A", "u6D5C", "u30B8", "u30E7", "u30A4", "u30CA", "u30B9">>>>,
       <<<<"Y", "o", "k", "o", "h", "a", "m", "a", "-", "j", "o", "i", "n", "u", "s">>, <<"A", "F", "U", "R", "I", " ", "u6A2A", "u6D5C", "u30B8", "u30E7", "u30A4", "u30CA", "u30B9">>>>,
       <<<<"u6A2A", "u6D5C", "u30E9", "u30F3", "u30C9", "u30DE", "u30FC", "u30AF">>, <<"u6A2A", "u6D5C", "u30E9", "u30F3", "u30C9", "u30DE", "u30FC", "u30AF", "u30BF", "u30EF", "u30FC">>>>,
       <<<<"L", "a", "n", "d", "m", "a", "r", "k", " ", "T", "o", "w", "e", "r">>, <<"u6A2A", "u6D5C", "u30E9", "u30F3", "u30C9", "u30DE", "u30FC", "u30AF", "u30BF", "u30EF", "u30FC">>>>,
       <<<<"u753A", "u7530">>, <<"M", "i", "n", "a", "m", "i", "m", "a", "c", "h", "i", "d", "a">>>>,
       <<<<"M", "a", "c", "h", "i", "d", "a">>, <<"M", "i", "n", "a", "m", "i", "m", "a", "c", "h", "i", "d", "a">>>>,
       <<<<"u6B4C", "u821E", "u4F0E", "u753A">>, <<"A", "F", "U", "R", "I", " ", "u8F9B", "u7D05">>>>,
       <<<<"u8F9B", "u7D05">>, <<"A", "F", "U", "R", "I", " ", "u8F9B", "u7D05">>>>,
       <<<<"u6709", "u697D", "u753A">>, <<"A", "F", "U", "R", "I", "u6709", "u697D", "u753A">>>>,
       <<<<"Y", "u", "r", "a", "k", "u", "c", "h", "o">>, <<"A", "F", "U", "R", "I", "u6709", "u697D", "u753A">>>>,
       <<<<"u30DD", "u30FC", "u30C8", "u30E9", "u30F3", "u30C9">>, <<"A", "F", "U", "R", "I", " ", "r", "a", "m", "e", "n", " ", "+", " ", "i", "z", "a", "k", "a", "y", "a", " ", "P", "o", "r", "t", "l", "a", "n", "d">>>>,
       <<<<"P", "o", "r", "t", "l", "a", "n", "d">>, <<"A", "F", "U", "R", "I", " ", "r", "a", "m", "e", "n", " ", "+", " ", "i", "z", "a", "k", "a", "y", "a", " ", "P", "o", "r", "t", "l", "a", "n", "d">>>>,
       <<<<"u30B9", "u30E9", "u30D6", "u30BF", "u30A6", "u30F3">>, <<"A", "F", "U", "R", "I", " ", "r", "a", "m", "e", "n", " ", "+", " ", "d", "u", "m", "p", "l", "i", "n", "g", "s", " ", "P", "o", "r", "t", "l", "a", "n", "d">>>>,
       <<<<"S", "l", "a", "b", "t", "o", "w", "n">>, <<"A", "F", "U", "R", "I", " ", "r", "a", "m", "e", "n", " ", "+", " ", "d", "u", "m", "p", "l", "i", "n", "g", "s", " ", "P", "o", "r", "t", "l", "a", "n", "d">>>>,
       <<<<"u30D6", "u30EB", "u30C3", "u30AF", "u30EA", "u30F3">>, <<"A", "F", "U", "R", "I", " ", "r", "a", "m", "e", "n", " ", "+", " ", "d", "u", "m", "p", "l", "i", "n", "g", "s", " ", "B", "r", "o", "o", "k", "l", "y", "n">>>>,
       <<<<"B", "r", "o", "o", "k", "l", "y", "n">>, <<"A", "F", "U", "R", "I", " ", "r", "a", "m", "e", "n", " ", "+", " ", "d", "u", "m", "p", "l", "i", "n", "g", "s", " ", "B", "r", "o", "o", "k", "l", "y", "n">>>>,
       <<<<"u30D2", "u30E5", "u30FC", "u30B9", "u30C8", "u30F3">>, <<"A", "F", "U", "R", "I", " ", "r", "a", "m", "e", "n", " ", "+", " ", "d", "u", "m", "p", "l", "i", "n", "g", "s", " ", "H", "o", "u", "s", "t", "o", "n">>>>,
       <<<<"H", "o", "u", "s", "t", "o", "n">>, <<"A", "F", "U", "R", "I", " ", "r", "a", "m", "e", "n", " ", "+", " ", "d", "u", "m", "p", "l", "i", "n", "g", "s", " ", "H", "o", "u", "s", "t", "o", "n">>>>,
       <<<<"u30ED", "u30B5", "u30F3", "u30BC", "u30EB", "u30B9">>, <<"A", "F", "U", "R", "I", " ", "r", "a", "m", "e", "n", " ", "+", " ", "d", "u", "m", "p", "l", "i", "n", "g", " ", "L", "o", "s", " ", "A", "n", "g", "e", "l", "e", "s">>>>,
       <<<<"L", "o", "s", " ", "A", "n", "g", "e", "l", "e", "s">>, <<"A", "F", "U", "R", "I", " ", "r", "a", "m", "e", "n", " ", "+", " ", "d", "u", "m", "p", "l", "i", "n", "g", " ", "L", "o", "s", " ", "A", "n", "g", "e", "l", "e", "s">>>>,
       <<<<"u30AB", "u30EB", "u30D0", "u30FC", "u30B7", "u30C6", "u30A3">>, <<"A", "F", "U", "R", "I", " ", "r", "a", "m", "e", "n", " ", "+", " ", "d", "u", "m", "p", "l", "i", "n", "g", " ", "C", "u", "l", "v", "e", "r", " ", "C", "i", "t", "y">>>>,
       <<<<"C", "u", "l", "v", "e", "r", " ", "C", "i", "t", "y">>, <<"A", "F", "U", "R", "I", " ", "r", "a", "m", "e", "n", " ", "+", " ", "d", "u", "m", "p", "l", "i", "n", "g", " ", "C", "u", "l", "v", "e", "r", " ", "C", "i", "t", "y">>>>,
       <<<<"u9999", "u6E2F">>, <<"A", "F", "U", "R", "I", " ", "r", "a", "m", "e", "n", " ", "+", " ", "d", "u", "m", "p", "l", "i", "n", "g", " ", "H", "o", "n", "g", "k", "o", "n", "g">>>>,
       <<<<"H", "o", "n", "g", "k", "o", "n", "g">>, <<"A", "F", "U", "R", "I", " ", "r", "a", "m", "e", "n", " ", "+", " ", "d", "u", "m", "p", "l", "i", "n", "g", " ", "H", "o", "n", "g", "k", "o", "n", "g">>>>,
       <<<<"u30EA", "u30C3", "u30C1", "u30E2", "u30F3", "u30C9">>, <<"A", "F", "U", "R", "I", " ", "r", "a", "m", "e", "n", " ", "+", " ", "d", "u", "m", "p", "l", "i", "n", "g", " ", "R", "i", "c", "h", "m", "o", "n", "d">>>>,
       <<<<"R", "i", "c", "h", "m", "o", "n", "d">>, <<"A", "F", "U", "R", "I", " ", "r", "a", "m", "e", "n", " ", "+", " ", "d", "u", "m", "p", "l", "i", "n", "g", " ", "R", "i", "c", "h", "m", "o", "n", "d">>>>,
       <<<<"u30C8", "u30ED", "u30F3", "u30C8">>, <<"A", "F", "U", "R", "I", " ", "r", "a", "m", "e", "n", " ", "+", " ", "d", "u", "m", "p", "l", "i", "n", "g", " ", "T", "o", "r", "o", "n", "t", "o">>>>,
       <<<<"T", "o", "r", "o", "n", "t", "o">>, <<"A", "F", "U", "R", "I", " ", "r", "a", "m", "e", "n", " ", "+", " ", "d", "u", "m", "p", "l", "i", "n", "g", " ", "T", "o", "r", "o", "n", "t", "o">>>>,
       <<<<"Z", "U", "N", "D", "-", "B", "A", "R">>, <<"Z", "U", "N", "D", "-", "B", "A", "R">>>>,
       <<<<"Z", "u", "n", "d", "-", "b", "a", "r">>, <<"Z", "U", "N", "D", "-", "B", "A", "R">>>> >>

\* what makes a line an address (lines 544-549)
address_markers ==
    << <<"u6771", "u4EAC", "u90FD">>, <<"u795E", "u5948", "u5DDD">>, <<"u5317", "u6D77", "u9053">>, <<"T", "E", "L", ":">>, <<"P", "o", "r", "t", "l", "a", "n", "d">>, <<"B", "r", "o", "o", "k", "l", "y", "n">>,
       <<"H", "o", "u", "s", "t", "o", "n">>, <<"L", "o", "s", " ", "A", "n", "g", "e", "l", "e", "s">>, <<"C", "u", "l", "v", "e", "r", " ", "C", "i", "t", "y">>, <<"H", "o", "n", "g", "k", "o", "n", "g">>, <<"R", "i", "c", "h", "m", "o", "n", "d">>, <<"T", "o", "r", "o", "n", "t", "o">>,
       <<"C", "a", "n", "a", "d", "a">>, <<"U", "S", "A">>, <<"u30A2", "u30E1", "u30EA", "u30AB", "u5408", "u8846", "u56FD">>, <<"u30AB", "u30CA", "u30C0">>, <<"u30AA", "u30EC", "u30B4", "u30F3", "u5DDE">>, <<"u30C6", "u30AD", "u30B5", "u30B9", "u5DDE">>,
       <<"u30AB", "u30EA", "u30D5", "u30A9", "u30EB", "u30CB", "u30A2", "u5DDE">>, <<"u30CB", "u30E5", "u30FC", "u30E8", "u30FC", "u30AF", "u5DDE">> >>

\* what makes a line a detail of the store (lines 564-580), as written
detail_markers ==
    << <<"T", "E", "L", ":">>, <<"u203B", "u5B8C", "u5168", "u30AD", "u30E3", "u30C3", "u30B7", "u30E5", "u30EC", "u30B9">>, <<"u203B">>, <<"1", "1", ":", "0", "0">>, <<"1", "0", ":", "0", "0">>,
       <<"1", "2", ":", "0", "0">>, <<"1", "6", ":", "0", "0">>, <<"O", "p", "e", "n">>, <<"u55B6", "u696D">>, <<"u5E74", "u4E2D", "u7121", "u4F11">>, <<"u6771", "u4EAC", "u90FD">>,
       <<"u795E", "u5948", "u5DDD">>, <<"u5317", "u6D77", "u9053">>, <<"A", "d", "d", "r", "e", "s", "s">>, <<"u4F4F", "u6240">>, <<"B", "1", "F">>, <<"1", "F">>,
       <<"B", "2", "F">>, <<"1", "u968E">>, <<"2", "u968E">>, <<"M", "o", "n", "d", "a", "y">>, <<"u6708", "u66DC">>, <<"S", "u", "n", "d", "a", "y">>,
       <<"u65E5", "u66DC">>, <<"F", "r", "i", "d", "a", "y">>, <<"u91D1", "u66DC">>, <<"S", "a", "t", "u", "r", "d", "a", "y">>, <<"u571F", "u66DC">>, <<"P", "o", "r", "t", "l", "a", "n", "d">>,
       <<"B", "r", "o", "o", "k", "l", "y", "n">>, <<"H", "o", "u", "s", "t", "o", "n">>, <<"L", "o", "s", " ", "A", "n", "g", "e", "l", "e", "s">>, <<"C", "u", "l", "v", "e", "r", " ", "C", "i", "t", "y">>, <<"H", "o", "n", "g", "k", "o", "n", "g">>, <<"T", "o", "r", "o", "n", "t", "o">>,
       <<"R", "i", "c", "h", "m", "o", "n", "d">>, <<"C", "a", "n", "a", "d", "a">>, <<"U", "S", "A">>, <<"u30A2", "u30E1", "u30EA", "u30AB", "u5408", "u8846", "u56FD">>, <<"u30AB", "u30CA", "u30C0">>, <<"u30AA", "u30EC", "u30B4", "u30F3", "u5DDE">>,
       <<"u30C6", "u30AD", "u30B5", "u30B9", "u5DDE">>, <<"u30AB", "u30EA", "u30D5", "u30A9", "u30EB", "u30CB", "u30A2", "u5DDE">>, <<"u30CB", "u30E5", "u30FC", "u30E8", "u30FC", "u30AF", "u5DDE">>, <<"R", "e", "s", "e", "r", "v", "a", "t", "i", "o", "n">> >>

\* and looked for in line.lower()
detail_markers_lower ==
    << <<"a", "m">>, <<"p", "m">>, <<"w", "w", "w", ".", "a", "f", "u", "r", "i">>, <<"f", "a", "c", "e", "b", "o", "o", "k">> >>

\* current_store = None
NoStore == <<"None">>

\* s.split(sep)[0]
BeforeFirst(s, sep) == IF Find(s, sep) = 0 THEN s ELSE SubSeq(s, 1, Find(s, sep) - 1)

\* 'Google map' in line.lower() or line == 'Google map' (line 467)
is_store_delimiter(line) ==
    Contains(Lower(line), <<"G", "o", "o", "g", "l", "e", " ", "m", "a", "p">>) \/ line = <<"G", "o", "o", "g", "l", "e", " ", "m", "a", "p">>

\* the first way to read a name (lines 495-503): the name the line gives,
\* NoStore when the line is not of that form, '' when the name comes out empty
explicit_store_name(line) ==
    IF StartsWith(line, <<"A", "F", "U", "R", "I">>) /\ AnyIn(store_name_keywords, line)
    THEN Strip(BeforeFirst(BeforeFirst(line, <<"T", "E", "L", ":">>), <<"A", "F", "U", "R", "I", " ", "k", "a", "r", "a">>))
    ELSE NoStore

\* the second way (lines 544-557): the name of the first key of location_map
\* that is in an address line, NoStore when there is none
address_store_name(line) ==
    LET hits == {k \in 1..Len(location_map) : Contains(line, location_map[k][1])}
    IN  IF AnyIn(address_markers, line) /\ hits # {}
        THEN location_map[Min(hits)][2]
        ELSE NoStore

\* the condition of lines 564-580
is_store_detail(line) ==
    AnyIn(detail_markers, line) \/ AnyIn(detail_markers_lower, Lower(line))

\* the dict store_data (lines 472-482, 589-599, 613-623)
store_data(url, name, content_lines) ==
    [x \in {"url", "title", "content", "section", "store_name", "date", "author",
            "tags", "categories"} |->
        CASE x = "url" -> url
          [] x = "title" -> <<"S", "t", "o", "r", "e", " ", "-", " ">> \o name
          [] x = "content" -> Join(<<name>> \o content_lines, "\n")
          [] x = "section" -> SectionStore
          [] x = "store_name" -> name
          [] x = "date" -> <<>>
          [] x = "author" -> <<>>
          [] x = "tags" -> <<<<"a", "f", "u", "r", "i">>>>
          [] x = "categories" -> <<>>]

\* without the look at the names in stores: a store read twice is saved twice
save_store_again(url, sts, name, content_lines) ==
    IF name # NoStore /\ name # <<>> /\ content_lines # <<>>
    THEN Append(sts, store_data(url, name, content_lines))
    ELSE sts

\* without the look at store_content_lines: a store with a name and no
\* detail is saved too
save_store_without_details(url, sts, name, content_lines) ==
    IF /\ name # NoStore /\ name # <<>>
       /\ ~\E k \in 1..Len(sts) : sts[k]["store_name"] = name
    THEN Append(sts, store_data(url, name, content_lines))
    ELSE sts

\* "if current_store and store_content_lines: ... stores.append(store_data)"
\* unless a store of that name is in stores (lines 469-483, 586-600, 610-624)
save_store(url, sts, name, content_lines) ==
    IF /\ name # NoStore /\ name # <<>>
       /\ content_lines # <<>>
       /\ ~\E k \in 1..Len(sts) : sts[k]["store_name"] = name
    THEN Append(sts, store_data(url, name, content_lines))
    ELSE sts

----------------------------------------------------------------------------
(* RamenScraper.fix_encoding and RamenScraper.parse_product_detail *)

\* str.replace(old, new), from the position i on
RECURSIVE ReplaceFrom(_, _, _, _)
ReplaceFrom(s, old, new, i) ==
    IF i > Len(s) THEN <<>>
    ELSE IF StartsWithAt(s, i, old) THEN new \o ReplaceFrom(s, old, new, i + Len(old))
    ELSE <<s[i]>> \o ReplaceFrom(s, old, new, i + 1)

Replace(s, old, new) == ReplaceFrom(s, old, new, 1)

\* the dict fixes, in the order of its keys
fixes ==
    << <<<<"u00EF", "u00BC", "u02C6">>, <<"uFF08">>>>,
       <<<<"u00EF", "u00BC", "u2030">>, <<"uFF09">>>>,
       <<<<"u00EF", "u00BC", "u00BB">>, <<"uFF3B">>>>,
       <<<<"u00EF", "u00BC", "u00BD">>, <<"uFF3D">>>>,
       <<<<"u00E3", "u20AC", "u201A">>, <<"u3002">>>>,
       <<<<"u00E3", "u20AC">>, <<"u3001">>>>,
       <<<<"u00E6", "u0153", "u00AC">>, <<"u672C">>>>,
       <<<<"u00E3", "u201A", "u00BB", "u00E3", "u0192", "u0192", "u00E3", "u0192", "u02C6">>, <<"u30BB", "u30C3", "u30C8">>>>,
       <<<<"u00E5", "u0152", "u00E6", "u00A2", "u00B1">>, <<"u540C", "u68B1">>>>,
       <<<<"u00E4", "u00B8", "u00E5", "u00AF">>, <<"u4E0D", "u53EF">>>>,
       <<<<"u00E5", "u201C">>, <<"u54C1">>>> >>

RECURSIVE apply_fixes(_, _)
apply_fixes(t, k) ==
    IF k > Len(fixes) THEN t
    ELSE apply_fixes(Replace(t, fixes[k][1], fixes[k][2]), k + 1)

\* fix_encoding: the replacements of the table.  The texts of the model hold
\* neither U+00EF U+00BC nor U+00E3 once the table is applied, so the
\* re-decoding of lines 48-56 is not entered.
fix_encoding(t) == IF t = <<>> THEN t ELSE apply_fixes(t, 1)

\* soup.find(...) found nothing; product_id = None
NoElement == <<"None">>
NoProductId == <<"None">>

\* the text of an element that may be absent, stripped
element_text(e) == IF e = NoElement THEN <<>> ELSE Strip(e)

\* re.search(r'/products/([^/?]+)', url): group(1).lower(), or None
product_id_of(url) ==
    LET marker == <<"/", "p", "r", "o", "d", "u", "c", "t", "s", "/">>
        starts == {i \in 1..Len(url) :
                      /\ StartsWithAt(url, i, marker)
                      /\ i + Len(marker) <= Len(url)
                      /\ url[i + Len(marker)] \notin {"/", "?"}}
        first == Min(starts) + Len(marker)
        stops == {j \in first..Len(url) : url[j] \in {"/", "?"}}
        last == IF stops = {} THEN Len(url) ELSE Min(stops) - 1
    IN  IF starts = {} THEN NoProductId ELSE Lower(SubSeq(url, first, last))

is_ipa_drink(title_lower) ==
    \/ Contains(title_lower, <<"y", "u", "z", "u", " ", "h", "a", "z", "y", " ", "i", "p", "a">>)
    \/ Contains(title_lower, <<"i", "p", "a", " ", "3", "5", "0", "m", "l">>)
    \/ /\ Contains(title_lower, <<"i", "p", "a">>)
       /\ Contains(title_lower, <<"3", "7", "0", "m", "l">>) \/ Contains(title_lower, <<"3", "5", "0", "m", "l">>)

is_soup(title_lower) ==
    \/ Contains(title_lower, <<"r", "a", "m", "e", "n", " ", "s", "o", "u", "p">>)
    \/ Contains(title_lower, <<"s", "o", "u", "p">>) /\ Contains(title_lower, <<"r", "a", "m", "e", "n">>)

is_drink(title_lower) ==
    AnyIn(<< <<"y", "u", "z", "u", " ", "j", "u", "i", "c", "e">>, <<"j", "u", "i", "c", "e">>, <<"d", "r", "i", "n", "k">>, <<"b", "e", "e", "r">>, <<"s", "a", "k", "e">>, <<"w", "h", "i", "s", "k", "y">>,
             <<"b", "e", "v", "e", "r", "a", "g", "e">>, <<"c", "r", "a", "f", "t", " ", "b", "e", "e", "r">>, <<"b", "r", "e", "w", "i", "n", "g">> >>, title_lower)

\* the chain of lines 874-881 and 884-891 up to its else: the category the
\* title and the description give, or None
title_based_category(title_lower, combined_text) ==
    IF \/ Contains(title_lower, <<"t", "s", "u", "k", "e", "m", "e", "n">>)
       \/ /\ title_lower # <<>>
          /\ Contains(combined_text, <<"t", "s", "u", "k", "e", "m", "e", "n">>)
          /\ ~Contains(title_lower, <<"r", "a", "m", "e", "n">>)
    THEN <<"T", "s", "u", "k", "e", "m", "e", "n">>
    ELSE IF \/ Contains(title_lower, <<"r", "a", "m", "e", "n">>)
            \/ title_lower # <<>> /\ Contains(combined_text, <<"r", "a", "m", "e", "n">>)
    THEN <<"R", "a", "m", "e", "n">>
    ELSE IF /\ Contains(combined_text, <<"n", "o", "o", "d", "l", "e">>)
            /\ ~Contains(combined_text, <<"r", "a", "m", "e", "n">>)
            /\ ~Contains(combined_text, <<"t", "s", "u", "k", "e", "m", "e", "n">>)
    THEN <<"N", "o", "o", "d", "l", "e", "s">>
    ELSE IF \/ Contains(combined_text, <<"t", "o", "p", "p", "i", "n", "g">>)
            \/ Contains(combined_text, <<"s", "i", "d", "e">>)
            \/ Contains(combined_text, <<"g", "o", "h", "a", "n">>)
    THEN <<"S", "i", "d", "e", " ", "D", "i", "s", "h", "e", "s">>
    ELSE NoCategory

\* the category of the page element (lines 894-911)
page_category(category_elem) ==
    LET category_text == Lower(Strip(category_elem))
    IN  IF category_elem = NoElement THEN <<"R", "a", "m", "e", "n">>
        ELSE IF Contains(category_text, <<"r", "a", "m", "e", "n">>) THEN <<"R", "a", "m", "e", "n">>
        ELSE IF Contains(category_text, <<"t", "s", "u", "k", "e", "m", "e", "n">>) THEN <<"T", "s", "u", "k", "e", "m", "e", "n">>
        ELSE IF Contains(category_text, <<"n", "o", "o", "d", "l", "e">>) THEN <<"N", "o", "o", "d", "l", "e", "s">>
        ELSE IF Contains(category_text, <<"d", "r", "i", "n", "k">>) THEN <<"D", "r", "i", "n", "k", "s">>
        ELSE IF Contains(category_text, <<"s", "o", "u", "p">>) THEN <<"S", "o", "u", "p">>
        ELSE IF Contains(category_text, <<"t", "o", "p", "p", "i", "n", "g">>) THEN <<"S", "i", "d", "e", " ", "D", "i", "s", "h", "e", "s">>
        ELSE <<"R", "a", "m", "e", "n">>

\* the category of a product id of a recognised prefix (lines 829-836)
prefix_category(product_id) ==
    IF StartsWith(product_id, <<"r", "a">>) THEN <<"R", "a", "m", "e", "n">>
    ELSE IF StartsWith(product_id, <<"m", "e">>) THEN <<"N", "o", "o", "d", "l", "e", "s">>
    ELSE IF StartsWith(product_id, <<"t", "u">>) THEN <<"T", "s", "u", "k", "e", "m", "e", "n">>
    ELSE IF StartsWith(product_id, <<"n", "i">>) \/ StartsWith(product_id, <<"s", "r">>) THEN <<"S", "i", "d", "e", " ", "D", "i", "s", "h", "e", "s">>
    ELSE NoCategory

\* the title asked before the product id: the chain of the title first
product_category_title_first(url, title, description, category_elem) ==
    LET title_lower == Lower(title)
        combined_text == title_lower \o <<" ">> \o Lower(description)
        product_id == product_id_of(url)
        by_title == title_based_category(title_lower, combined_text)
    IN  IF is_ipa_drink(title_lower) THEN <<"D", "r", "i", "n", "k", "s">>
        ELSE IF by_title # NoCategory THEN by_title
        ELSE IF prefix_category(product_id) # NoCategory THEN prefix_category(product_id)
        ELSE page_category(category_elem)

\* menu_category as lines 801-911 set it
product_category(url, title, description, category_elem) ==
    LET title_lower == Lower(title)
        combined_text == title_lower \o <<" ">> \o Lower(description)
        product_id == product_id_of(url)
        by_title == title_based_category(title_lower, combined_text)
    IN  IF is_ipa_drink(title_lower) THEN <<"D", "r", "i", "n", "k", "s">>
        ELSE IF product_id # NoProductId
        THEN IF prefix_category(product_id) # NoCategory THEN prefix_category(product_id)
             ELSE IF is_soup(title_lower) THEN <<"S", "o", "u", "p">>
             ELSE IF is_drink(title_lower) THEN <<"D", "r", "i", "n", "k", "s">>
             ELSE IF StartsWith(product_id, <<"t", "p">>) THEN <<"S", "i", "d", "e", " ", "D", "i", "s", "h", "e", "s">>
             ELSE IF by_title # NoCategory THEN by_title
             ELSE <<"R", "a", "m", "e", "n">>
        ELSE IF by_title # NoCategory THEN by_title
        ELSE page_category(category_elem)

category_tag_map ==
    << <<<<"R", "a", "m", "e", "n">>, <<"r", "a", "m", "e", "n">>>>, <<<<"T", "s", "u", "k", "e", "m", "e", "n">>, <<"t", "s", "u", "k", "e", "m", "e", "n">>>>, <<<<"N", "o", "o", "d", "l", "e", "s">>, <<"n", "o", "o", "d", "l", "e", "s">>>>,
       <<<<"D", "r", "i", "n", "k", "s">>, <<"d", "r", "i", "n", "k">>>>, <<<<"S", "o", "u", "p">>, <<"s", "o", "u", "p">>>>, <<<<"S", "i", "d", "e", " ", "D", "i", "s", "h", "e", "s">>, <<"s", "i", "d", "e", "-", "d", "i", "s", "h">>>> >>

\* ['afuri', 'shop'] and the tag of the category (lines 913-924)
product_tags(category) ==
    LET hits == {k \in 1..Len(category_tag_map) : category_tag_map[k][1] = category}
    IN  IF hits = {} THEN <<<<"a", "f", "u", "r", "i">>, <<"s", "h", "o", "p">>>>
        ELSE <<<<"a", "f", "u", "r", "i">>, <<"s", "h", "o", "p">>, category_tag_map[Min(hits)][2]>>

\* re.search(r'ingredients?[:\s]+([^\n]+)', description, re.I): group(1),
\* stripped, of the leftmost match, or ''
product_introduction(description) ==
    LET d == Lower(description)
        IsSep(c) == c = ":" \/ IsSpace(c)
        \* the position after 'ingredient' and an 's', when the word is at i
        AfterWord(i) == IF StartsWithAt(d, i + 10, <<"s">>) THEN i + 11 ELSE i + 10
        \* the end of the separators from j on: the first position that holds none
        SepEnd(j) == Min({e \in j..(Len(d) + 1) : e = Len(d) + 1 \/ ~IsSep(d[e])})
        \* where group(1) starts: after the separators, or at the last of them
        \* that is no newline when they run to the end of the text
        GroupStarts(i) ==
            LET j == AfterWord(i)
                e == SepEnd(j)
            IN  IF e <= Len(d) THEN IF e > j THEN {e} ELSE {}
                ELSE {k \in (j + 1)..Len(d) : d[k] # "\n"}
        matches == {i \in 1..Len(d) : StartsWithAt(d, i, <<"i", "n", "g", "r", "e", "d", "i", "e", "n", "t">>) /\ GroupStarts(i) # {}}
        start == Max(GroupStarts(Min(matches)))
        ends == {e \in start..Len(d) : d[e] = "\n"}
        stop == IF ends = {} THEN Len(d) ELSE Min(ends) - 1
    IN  IF description = <<>> \/ matches = {} THEN <<>>
        ELSE Strip(SubSeq(description, start, stop))

\* the second of the distinct image addresses, or the only one (lines 782-799)
product_images(srcs) ==
    LET firsts == {k \in 1..Len(srcs) : \A j \in 1..(k - 1) : srcs[j] # srcs[k]}
        valid_images == [n \in 1..Cardinality(firsts) |->
                            srcs[CHOOSE k \in firsts :
                                    Cardinality({j \in firsts : j <= k}) = n]]
    IN  IF Len(valid_images) >= 2 THEN <<valid_images[2]>>
        ELSE IF Len(valid_images) = 1 THEN <<valid_images[1]>>
        ELSE <<>>

\* parse_product_detail(soup, url); soup gives what its finds return: the text
\* of the title, price, description and category elements, NoElement for an
\* element that is not there, and the absolute addresses of the images
parse_product_detail(soup, url) ==
    LET title == fix_encoding(element_text(soup.title))
        description == fix_encoding(element_text(soup.description))
        category == product_category(url, title, description, soup.category)
    IN  [x \in {"url", "title", "content", "section", "menu_item", "menu_category",
                "introduction", "price", "images", "description", "date", "author",
                "tags", "categories"} |->
            CASE x = "url" -> url
              [] x = "title" -> title
              [] x = "content" -> description
              [] x = "section" -> SectionMenu
              [] x = "menu_item" -> title
              [] x = "menu_category" -> category
              [] x = "introduction" -> product_introduction(description)
              [] x = "price" -> fix_encoding(element_text(soup.price))
              [] x = "images" -> product_images(soup.images)
              [] x = "description" -> description
              [] x = "date" -> <<>>
              [] x = "author" -> <<>>
              [] x = "tags" -> product_tags(category)
              [] x = "categories" -> <<>>]

----------------------------------------------------------------------------
(* Idle values of the variable groups a specification does not use *)

TextIdle  == text = <<>> /\ prev_text = <<>> /\ ncalls = 0
PriceIdle == price_text = <<>> /\ price = <<>> /\ price_range = <<>> /\ price_pc = "idle"
CleanIdle == /\ input_file = [present |-> FALSE, data |-> <<>>] /\ articles = <<>> /\ cleaned_articles = <<>> /\ unique_articles = <<>>
             /\ seen_items = {} /\ stats = [total |-> 0, cleaned |-> 0, removed |-> 0]
             /\ cursor = 0 /\ clean_pc = "idle"
MenuIdle  == page = <<>> /\ menu_items = <<>> /\ menu_pc = "idle" /\ menu_cursor = 0
FoodIdle  == food_articles = <<>> /\ food_results = <<>>
StoreIdle == /\ store_lines = <<>> /\ store_i = 0 /\ stores = <<>> /\ current_store = <<>>
             /\ store_content_lines = <<>> /\ in_store_section = FALSE /\ store_pc = "idle"
ProductIdle == product_soup = <<>> /\ product_url = <<>> /\ product_data = <<>> /\ product_pc = "idle"
DescriptiveIdle == candidate = <<>> /\ is_descriptive = FALSE /\ descriptive_pc = "idle"
CrawlIdle == site = <<>> /\ max_depth = 0 /\ prefecture_links = <<>> /\ visited_urls = {} /\ call_stack = <<>> /\ get_page_log = <<>> /\ all_stores = <<>> /\ crawl_pc = "idle"
RunIdle == runner = <<>> /\ data_files = <<>> /\ success = TRUE /\ errors = <<>> /\ run_log = <<>> /\ run_result = <<>> /\ run_pc = "idle"

----------------------------------------------------------------------------
(* SpecText: clean_text applied to a text, then to its own result *)

InitText ==
    /\ text \in TextInputs
    /\ prev_text = <<>>
    /\ ncalls = 0
    /\ PriceIdle /\ CleanIdle /\ MenuIdle /\ FoodIdle /\ StoreIdle /\ ProductIdle /\ DescriptiveIdle /\ CrawlIdle /\ RunIdle

CleanText ==
    /\ ncalls < MaxCalls
    /\ prev_text' = text
    /\ text' = clean_text(text)
    /\ ncalls' = ncalls + 1
    /\ UNCHANGED <<price_vars, clean_vars, menu_vars, food_vars, store_vars, product_vars, descriptive_vars, crawl_vars, run_vars>>

NextText == CleanText

SpecText == InitText /\ [][NextText]_vars

\* C1: clean_text is idempotent: a second application to the result of the
\* first changes nothing.
C1_Idempotent == ncalls = 2 => text = prev_text


----------------------------------------------------------------------------
(* SpecPrice: the price parser.  clean_article (lines 221-226) calls
   clean_price on the raw price and get_price_range on its result;
   get_price_range is also called on the raw text itself. *)

InitPrice ==
    /\ price_text \in PriceInputs
    /\ price = Unset
    /\ price_range = Unset
    /\ price_pc = "start"
    /\ TextIdle /\ CleanIdle /\ MenuIdle /\ FoodIdle /\ StoreIdle /\ ProductIdle /\ DescriptiveIdle /\ CrawlIdle /\ RunIdle

\* cleaned['price'] = self.clean_price(price_value)
CleanPrice ==
    /\ price_pc = "start"
    /\ price' = clean_price(price_text)
    /\ price_pc' = "cleaned"
    /\ UNCHANGED <<price_text, price_range, text_vars, clean_vars, menu_vars, food_vars, store_vars, product_vars, descriptive_vars, crawl_vars, run_vars>>

\* cleaned['price_range'] = self.get_price_range(cleaned['price'])
RangeOfCleanedPrice ==
    /\ price_pc = "cleaned"
    /\ price # Raised
    /\ price_range' = get_price_range(price)
    /\ price_pc' = "ranged"
    /\ UNCHANGED <<price_text, price, text_vars, clean_vars, menu_vars, food_vars, store_vars, product_vars, descriptive_vars, crawl_vars, run_vars>>

\* get_price_range(price_text) on the raw text
RangeOfText ==
    /\ price_pc = "start"
    /\ price_range' = get_price_range(price_text)
    /\ price_pc' = "direct"
    /\ UNCHANGED <<price_text, price, text_vars, clean_vars, menu_vars, food_vars, store_vars, product_vars, descriptive_vars, crawl_vars, run_vars>>

NextPrice == CleanPrice \/ RangeOfCleanedPrice \/ RangeOfText

SpecPrice == InitPrice /\ [][NextPrice]_vars

RangeLabels == {RangeUnder1000, Range1000to2000, Range2000to3000,
                Range3000to5000, Range5000to10000, RangeOver10000}

\* the text get_price_range was given in the current state
RangedText == IF price_pc = "ranged" THEN price ELSE price_text

\* the integer a canonical price embeds: the currency symbol and the
\* thousands separators deleted
EmbeddedDigits(p) == SelectSeq(p, LAMBDA c : ~IsYenSign(c) /\ c # ",")

\* C5: every non-empty price that clean_price returns embeds an integer, and
\* get_price_range of it is the bucket of that integer.
C5_PriceRoundTrip ==
    (price_pc = "ranged" /\ price # <<>>) =>
        /\ EmbeddedDigits(price) # <<>>
        /\ \A i \in 1..Len(EmbeddedDigits(price)) : EmbeddedDigits(price)[i] \in Digits
        /\ price_range = price_bucket(ParseInt(EmbeddedDigits(price)))

\* C6: clean_price and get_price_range never raise, and a text with no
\* parsable number gives the empty string.
C6_PriceTotal ==
    /\ price # Raised
    /\ price_range # Raised
    /\ (price_pc = "cleaned" /\ \A i \in 1..Len(price_text) : price_text[i] \notin Digits)
           => price = <<>>
    /\ (price_pc = "direct" /\ \A i \in 1..Len(price_text) : price_text[i] \notin Digits)
           => price_range = <<>>

\* the value get_price_range buckets: the greatest number of the text
ValueOf(p) == RunValue(MaxByValue(NumberRuns(Strip(p))))

HasValue(p) == NumberRuns(Strip(p)) # <<>> /\ ~MaxRaises(NumberRuns(Strip(p)))

\* C7: a value v falls in exactly one of the six half-open buckets bounded by
\* 1000, 2000, 3000, 5000, 10000; a boundary value belongs to the bucket above.
C7_Buckets ==
    (price_pc \in {"ranged", "direct"} /\ HasValue(RangedText)) =>
        LET v == ValueOf(RangedText) IN
        /\ price_range \in RangeLabels
        /\ (price_range = RangeUnder1000)   <=> (v < 1000)
        /\ (price_range = Range1000to2000)  <=> (1000 <= v /\ v < 2000)
        /\ (price_range = Range2000to3000)  <=> (2000 <= v /\ v < 3000)
        /\ (price_range = Range3000to5000)  <=> (3000 <= v /\ v < 5000)
        /\ (price_range = Range5000to10000) <=> (5000 <= v /\ v < 10000)
        /\ (price_range = RangeOver10000)   <=> (10000 <= v)
        /\ (RangedText = <<"YEN", "3", ",", "5", "8", "0">>) => price_range = Range3000to5000

\* a boundary value is bucketed: 5,000 lands in the bucket that starts at 5,000
C7_Witness ==
    /\ price_pc = "direct"
    /\ price_text = <<"YEN", "5", ",", "0", "0", "0">>
    /\ price_range = Range5000to10000

----------------------------------------------------------------------------
(* SpecClean: DataCleaner.clean_all on a JSON file of records.  One step per
   iteration of its loop (lines 311-327) and of the loop of
   remove_duplicates (lines 278-297). *)

InitClean ==
    /\ input_file \in [present : {TRUE}, data : InputFiles]
                          \cup {[present |-> FALSE, data |-> <<>>]}
    /\ articles = <<>>
    /\ cleaned_articles = <<>>
    /\ unique_articles = <<>>
    /\ seen_items = {}
    /\ stats = [total |-> 0, cleaned |-> 0, removed |-> 0]
    /\ cursor = 0
    /\ clean_pc = "start"
    /\ TextIdle /\ PriceIdle /\ MenuIdle /\ FoodIdle /\ StoreIdle /\ ProductIdle /\ DescriptiveIdle /\ CrawlIdle /\ RunIdle

\* load_data: the file does not exist, clean_all returns False
LoadDataMissing ==
    /\ clean_pc = "start"
    /\ ~input_file.present
    /\ clean_pc' = "failed"
    /\ UNCHANGED <<input_file, articles, cleaned_articles, unique_articles,
                   seen_items, stats, cursor, text_vars, price_vars, menu_vars, food_vars, store_vars, product_vars, descriptive_vars, crawl_vars, run_vars>>

\* load_data: self.articles = json.load(f); stats['total'] = len(self.articles)
LoadData ==
    /\ clean_pc = "start"
    /\ input_file.present
    /\ articles' = input_file.data
    /\ stats' = [stats EXCEPT !.total = Len(input_file.data)]
    /\ cursor' = 1
    /\ clean_pc' = "cleaning"
    /\ UNCHANGED <<input_file, cleaned_articles, unique_articles, seen_items,
                   text_vars, price_vars, menu_vars, food_vars, store_vars, product_vars, descriptive_vars, crawl_vars, run_vars>>

\* one iteration of "for article in self.articles" (lines 311-327)
CleanOne ==
    /\ clean_pc = "cleaning"
    /\ cursor <= Len(articles)
    /\ LET article == articles[cursor] IN
        IF ~is_valid_article(article)
        THEN /\ stats' = [stats EXCEPT !.removed = @ + 1]
             /\ cursor' = cursor + 1
             /\ UNCHANGED <<cleaned_articles, clean_pc>>
        ELSE IF clean_article_raises(article)
        THEN /\ clean_pc' = "raised"
             /\ UNCHANGED <<cleaned_articles, stats, cursor>>
        ELSE LET cleaned == clean_article(article) IN
             IF cleaned["title"] # <<>>
             THEN /\ cleaned_articles' = Append(cleaned_articles,
                        IF cleaned["content"] = <<>> /\ cleaned["section"] = SectionMenu
                        THEN Put(cleaned, "content", cleaned["title"])
                        ELSE cleaned)
                  /\ stats' = [stats EXCEPT !.cleaned = @ + 1]
                  /\ cursor' = cursor + 1
                  /\ UNCHANGED clean_pc
             ELSE /\ stats' = [stats EXCEPT !.removed = @ + 1]
                  /\ cursor' = cursor + 1
                  /\ UNCHANGED <<cleaned_articles, clean_pc>>
    /\ UNCHANGED <<input_file, articles, unique_articles, seen_items,
                   text_vars, price_vars, menu_vars, food_vars, store_vars, product_vars, descriptive_vars, crawl_vars, run_vars>>

\* the loop is over: remove_duplicates(cleaned_articles) is called
StartRemoveDuplicates ==
    /\ clean_pc = "cleaning"
    /\ cursor > Len(articles)
    /\ seen_items' = {}
    /\ unique_articles' = <<>>
    /\ cursor' = 1
    /\ clean_pc' = "dedup"
    /\ UNCHANGED <<input_file, articles, cleaned_articles, stats,
                   text_vars, price_vars, menu_vars, food_vars, store_vars, product_vars, descriptive_vars, crawl_vars, run_vars>>

\* one iteration of "for article in articles" of remove_duplicates
RemoveDuplicatesOne ==
    /\ clean_pc = "dedup"
    /\ cursor <= Len(cleaned_articles)
    /\ LET article == cleaned_articles[cursor]
           id == identifier(article)
       IN  IF id # <<>> /\ id \notin seen_items
           THEN /\ seen_items' = seen_items \cup {id}
                /\ unique_articles' = Append(unique_articles, article)
                /\ UNCHANGED stats
           ELSE /\ stats' = [stats EXCEPT !.removed = @ + 1]
                /\ UNCHANGED <<seen_items, unique_articles>>
    /\ cursor' = cursor + 1
    /\ UNCHANGED <<input_file, articles, cleaned_articles, clean_pc,
                   text_vars, price_vars, menu_vars, food_vars, store_vars, product_vars, descriptive_vars, crawl_vars, run_vars>>

\* remove_duplicates returns; lines 333-339 of clean_all
FinishCleanAll ==
    /\ clean_pc = "dedup"
    /\ cursor > Len(cleaned_articles)
    /\ LET duplicates_removed == Len(cleaned_articles) - Len(unique_articles)
       IN  stats' = IF duplicates_removed > 0
                    THEN [stats EXCEPT !.removed = @ + duplicates_removed]
                    ELSE stats
    /\ articles' = unique_articles
    /\ clean_pc' = "done"
    /\ UNCHANGED <<input_file, cleaned_articles, unique_articles, seen_items, cursor,
                   text_vars, price_vars, menu_vars, food_vars, store_vars, product_vars, descriptive_vars, crawl_vars, run_vars>>

NextClean ==
    \/ LoadDataMissing
    \/ LoadData
    \/ CleanOne
    \/ StartRemoveDuplicates
    \/ RemoveDuplicatesOne
    \/ FinishCleanAll

SpecClean == InitClean /\ [][NextClean]_vars

\* the deduplication identity key of a record, as a tuple of its fields
IdentityKey(r) ==
    IF Get(r, "section") = SectionMenu /\ Get(r, "menu_item") # <<>>
    THEN <<Get(r, "url"), Get(r, "menu_category"), Get(r, "menu_item")>>
    ELSE IF Get(r, "section") = SectionStore /\ Get(r, "store_name") # <<>>
    THEN <<Get(r, "url"), Get(r, "store_name")>>
    ELSE <<Get(r, "url")>>

\* C2: after clean_all no two records of the output share an identity key.
C2_UniqueKeys ==
    clean_pc = "done" =>
        \A i, j \in 1..Len(articles) :
            i # j => IdentityKey(articles[i]) # IdentityKey(articles[j])

\* two different records of one key went in and one came out
C2_Witness ==
    /\ clean_pc = "done"
    /\ Len(cleaned_articles) = 2
    /\ cleaned_articles[1] # cleaned_articles[2]
    /\ IdentityKey(cleaned_articles[1]) = IdentityKey(cleaned_articles[2])
    /\ Len(articles) = 1

\* the indexes of the first occurrences of the keys of a list
FirstOccurrences(rs) ==
    {i \in 1..Len(rs) : \A j \in 1..(i - 1) : IdentityKey(rs[j]) # IdentityKey(rs[i])}

RECURSIVE Pick(_, _, _)
Pick(rs, keep, i) ==
    IF i > Len(rs) THEN <<>>
    ELSE (IF i \in keep THEN <<rs[i]>> ELSE <<>>) \o Pick(rs, keep, i + 1)

\* C3: remove_duplicates returns the subsequence of the first occurrences of
\* the identity keys: the first record of every key is kept, every later one
\* is dropped.
C3_FirstOccurrencesKept ==
    (clean_pc = "dedup" /\ cursor > Len(cleaned_articles)) =>
        unique_articles = Pick(cleaned_articles, FirstOccurrences(cleaned_articles), 1)

\* C4: every record of the output has a non-empty title and a non-empty
\* content.
C4_TitleAndContent ==
    clean_pc = "done" =>
        \A i \in 1..Len(articles) :
            articles[i]["title"] # <<>> /\ articles[i]["content"] # <<>>

\* C9: the end-to-end scenario: the record with title, content and section
\* only comes out as one record with the markup gone from the title, the
\* content unchanged, the category Ramen and the ingredient line as
\* introduction.
C9_EndToEnd ==
    (clean_pc = "done" /\ input_file.data = <<ScenarioRecord>>) =>
        /\ Len(articles) = 1
        /\ articles[1]["title"] = <<"Y", "u", "z", "u", " ", "S", "h", "i", "o", " ", "R", "a", "m", "e", "n">>
        /\ articles[1]["content"] = ScenarioRecord["content"]
        /\ articles[1]["section"] = SectionMenu
        /\ Get(articles[1], "menu_category") = <<"R", "a", "m", "e", "n">>
        /\ Get(articles[1], "introduction") = <<"b", "r", "o", "t", "h", ",", " ", "c", "h", "a", "s", "h", "u", ",", " ", "n", "o", "r", "i", ",", " ", "e", "g", "g">>


----------------------------------------------------------------------------
(* SpecMenu: RamenScraper.parse_menu_page(soup, UrlMenu).  One step per
   iteration of its three loops: the list items (lines 177-216), the
   paragraphs (lines 219-261) and the known names, longest first (lines
   279-417). *)

InitMenu ==
    /\ page \in InputPages
    /\ menu_items = <<>>
    /\ menu_pc = "list_items"
    /\ menu_cursor = 1
    /\ TextIdle /\ PriceIdle /\ CleanIdle /\ FoodIdle /\ StoreIdle /\ ProductIdle /\ DescriptiveIdle /\ CrawlIdle /\ RunIdle

\* one iteration of "for li in list_items"
ListItem ==
    /\ menu_pc = "list_items"
    /\ menu_cursor <= Len(find_all(page, {"li"}))
    /\ menu_items' = menu_items \o
            list_item_records(UrlMenu, find_all(page, {"li"})[menu_cursor].text)
    /\ menu_cursor' = menu_cursor + 1
    /\ UNCHANGED <<page, menu_pc, text_vars, price_vars, clean_vars, food_vars, store_vars, product_vars, descriptive_vars, crawl_vars, run_vars>>

\* the list items are done: the loop of the paragraphs begins
StartParagraphs ==
    /\ menu_pc = "list_items"
    /\ menu_cursor > Len(find_all(page, {"li"}))
    /\ menu_pc' = "paragraphs"
    /\ menu_cursor' = 1
    /\ UNCHANGED <<page, menu_items, text_vars, price_vars, clean_vars, food_vars, store_vars, product_vars, descriptive_vars, crawl_vars, run_vars>>

\* one iteration of "for p in paragraphs"
Paragraph ==
    /\ menu_pc = "paragraphs"
    /\ menu_cursor <= Len(find_all(page, {"p"}))
    /\ menu_items' = menu_items \o
            paragraph_records(UrlMenu, find_all(page, {"p"})[menu_cursor].text, menu_items)
    /\ menu_cursor' = menu_cursor + 1
    /\ UNCHANGED <<page, menu_pc, text_vars, price_vars, clean_vars, food_vars, store_vars, product_vars, descriptive_vars, crawl_vars, run_vars>>

\* the paragraphs are done: menu_item_names is sorted and the sweep begins
StartSweep ==
    /\ menu_pc = "paragraphs"
    /\ menu_cursor > Len(find_all(page, {"p"}))
    /\ menu_pc' = "sweep"
    /\ menu_cursor' = 1
    /\ UNCHANGED <<page, menu_items, text_vars, price_vars, clean_vars, food_vars, store_vars, product_vars, descriptive_vars, crawl_vars, run_vars>>

\* one iteration of "for item_name in menu_item_names"
SweepName ==
    /\ menu_pc = "sweep"
    /\ menu_cursor <= Len(sorted_names)
    /\ menu_items' = menu_items \o
            sweep_records(UrlMenu, page, menu_items, sorted_names[menu_cursor])
    /\ menu_cursor' = menu_cursor + 1
    /\ UNCHANGED <<page, menu_pc, text_vars, price_vars, clean_vars, food_vars, store_vars, product_vars, descriptive_vars, crawl_vars, run_vars>>

\* return menu_items
FinishParse ==
    /\ menu_pc = "sweep"
    /\ menu_cursor > Len(sorted_names)
    /\ menu_pc' = "done"
    /\ UNCHANGED <<page, menu_items, menu_cursor, text_vars, price_vars, clean_vars, food_vars, store_vars, product_vars, descriptive_vars, crawl_vars, run_vars>>

NextMenu ==
    \/ ListItem
    \/ StartParagraphs
    \/ Paragraph
    \/ StartSweep
    \/ SweepName
    \/ FinishParse

SpecMenu == InitMenu /\ [][NextMenu]_vars

\* the records of menu_items whose menu_item is the name
RecordsOf(item_name) ==
    {i \in 1..Len(menu_items) : menu_items[i]["menu_item"] = item_name}

\* a longer known name that contains the name is in the text of the page
LongerNameInPage(item_name) ==
    \E k \in 1..Len(menu_item_names) :
        /\ Len(menu_item_names[k]) > Len(item_name)
        /\ Contains(menu_item_names[k], item_name)
        /\ Contains(get_text(page), menu_item_names[k])

\* C10: parse_menu_page never emits a record for a known name N when a longer
\* known name that contains N is in the text of the page; a page with
\* 'Nori 7 pieces' in its text yields exactly one record for 'Nori 7 pieces'
\* and none for 'Nori', whichever elements the names are in.
C10_SpecificityTieBreak ==
    /\ \A i \in 1..Len(menu_items) :
           InSeq(menu_items[i]["menu_item"], menu_item_names)
               => ~LongerNameInPage(menu_items[i]["menu_item"])
    /\ (menu_pc = "done" /\ Contains(get_text(page), <<"N", "o", "r", "i", " ", "7", " ", "p", "i", "e", "c", "e", "s">>)) =>
           /\ Cardinality(RecordsOf(<<"N", "o", "r", "i", " ", "7", " ", "p", "i", "e", "c", "e", "s">>)) = 1
           /\ RecordsOf(<<"N", "o", "r", "i">>) = {}

----------------------------------------------------------------------------
(* Claims about clean_article, read off the step of clean_all that calls it *)

\* the step appends the cleaned form of articles[cursor] to cleaned_articles
CleanedNow ==
    /\ clean_pc = "cleaning"
    /\ Len(cleaned_articles') = Len(cleaned_articles) + 1

\* the record the step has appended
Appended == cleaned_articles'[Len(cleaned_articles')]

----------------------------------------------------------------------------
(* SpecFood: DataCleaner.is_non_food_product applied to the records of a
   list, one after the other *)

FoodTitles ==
    { <<"P", "o", "r", "k", " ", "C", "h", "a", "s", "h", "u", " ", "G", "o", "h", "a", "n">>, <<"A", "F", "U", "R", "I", " ", "O", "r", "i", "g", "i", "n", "a", "l", " ", "M", "u", "g">>, <<"O", "r", "i", "g", "i", "n", "a", "l">>, <<"S", "t", "i", "c", "k", "e", "r">> }

FoodContents ==
    { <<>>, <<"w", "i", "t", "h", " ", "p", "o", "r", "k">>, <<"R", "i", "c", "e", " ", "B", "o", "w", "l", " ", "o", "f", " ", "p", "o", "r", "k">>, <<"i", "n", " ", "o", "u", "r", " ", "O", "r", "i", "g", "i", "n", "a", "l", " ", "R", "i", "c", "e", " ", "B", "o", "w", "l">>,
      <<"a", "n", " ", "o", "r", "i", "g", "i", "n", "a", "l", " ", "m", "u", "g", " ", "a", "n", "d", " ", "a", "n", " ", "e", "g", "g">> }

FoodInputs ==
    { [x \in {"title", "content"} |-> IF x = "title" THEN t ELSE c] :
          t \in FoodTitles, c \in FoodContents }

InitFood ==
    /\ food_articles \in [1..MaxProducts -> FoodInputs]
    /\ food_results = <<>>
    /\ TextIdle /\ PriceIdle /\ CleanIdle /\ MenuIdle /\ StoreIdle /\ ProductIdle /\ DescriptiveIdle /\ CrawlIdle /\ RunIdle

\* is_non_food_product(article) for the next record of the list
ClassifyProduct ==
    /\ Len(food_results) < Len(food_articles)
    /\ food_results' = Append(food_results,
            is_non_food_product(food_articles[Len(food_results) + 1]))
    /\ UNCHANGED <<food_articles, text_vars, price_vars, clean_vars, menu_vars, store_vars, product_vars, descriptive_vars, crawl_vars, run_vars>>

NextFood == ClassifyProduct

SpecFood == InitFood /\ [][NextFood]_vars

\* title, a space and content, in lower case
Combined(article) == Lower(article["title"]) \o <<" ">> \o Lower(article["content"])

HasFoodKeyword(article) == AnyIn(food_keywords, Combined(article))

TitleOverride(article) == AnyIn(non_food_patterns_in_title, Lower(article["title"]))

RiceBowl(article) == Contains(Combined(article), <<"o", "r", "i", "g", "i", "n", "a", "l", " ", "r", "i", "c", "e", " ", "b", "o", "w", "l">>)

----------------------------------------------------------------------------
(* Claims about the validity stage of clean_all *)

\* the step is an iteration of the loop of clean_all on articles[cursor]
CleanStep ==
    /\ clean_pc = "cleaning"
    /\ cursor <= Len(articles)
    /\ (cursor' # cursor \/ clean_pc' # clean_pc)

\* the content of the appended record is its title when the cleaned content
\* of the article is empty
BackFilled ==
    clean_text(Get(articles[cursor], "content")) = <<>>
        => /\ Appended["content"] = clean_text(Get(articles[cursor], "title"))
           /\ Appended["content"] = Appended["title"]

----------------------------------------------------------------------------
(* SpecStore: RamenScraper.parse_store_information(soup, UrlStores) on the
   lines of the text of the page.  One step per iteration of the while loop
   (lines 460-607), one for the last store (lines 609-626). *)

LineVocabulary ==
    { <<" ">>,
      <<"G", "o", "o", "g", "l", "e", " ", "m", "a", "p">>,
      <<"V", "i", "e", "w", " ", "G", "o", "o", "g", "l", "e", " ", "m", "a", "p">>,
      <<"A", "F", "U", "R", "I", " ", "E", "b", "i", "s", "u">>,
      <<" ", "A", "F", "U", "R", "I", " ", "H", "a", "r", "a", "j", "u", "k", "u", " ", "T", "E", "L", ":", " ", "0", "3", "-", "1">>,
      <<"T", "E", "L", ":", " ", "0", "3", "-", "2", " ", "E", "b", "i", "s", "u">>,
      <<"O", "p", "e", "n", " ", "1", "1", ":", "0", "0">>,
      <<"A", "F", "U", "R", "I", " ", "k", "a", "r", "a", " ", "k", "u", "r", "e", "n", "a", "i", " ", "T", "E", "L", ":", " ", "1">> }

InputLines == UNION {[1..k -> LineVocabulary] : k \in 0..MaxLines}

\* in_store_section = True from the start: a name is read before any
\* delimiter
InitStore_in_section ==
    /\ store_lines \in InputLines
    /\ store_i = 1
    /\ stores = <<>>
    /\ current_store = NoStore
    /\ store_content_lines = <<>>
    /\ in_store_section = TRUE
    /\ store_pc = "scanning"
    /\ TextIdle /\ PriceIdle /\ CleanIdle /\ MenuIdle /\ FoodIdle /\ ProductIdle /\ DescriptiveIdle /\ CrawlIdle /\ RunIdle

InitStore ==
    /\ store_lines \in InputLines
    /\ store_i = 1
    /\ stores = <<>>
    /\ current_store = NoStore
    /\ store_content_lines = <<>>
    /\ in_store_section = FALSE
    /\ store_pc = "scanning"
    /\ TextIdle /\ PriceIdle /\ CleanIdle /\ MenuIdle /\ FoodIdle /\ ProductIdle /\ DescriptiveIdle /\ CrawlIdle /\ RunIdle

\* lines[i].strip() of the iteration
StoreLine == Strip(store_lines[store_i])

\* "if not line: i += 1; continue"
SkipBlankLine ==
    /\ store_pc = "scanning"
    /\ store_i <= Len(store_lines)
    /\ StoreLine = <<>>
    /\ store_i' = store_i + 1
    /\ UNCHANGED <<store_lines, stores, current_store, store_content_lines,
                   in_store_section, store_pc,
                   text_vars, price_vars, clean_vars, menu_vars, food_vars, product_vars, descriptive_vars, crawl_vars, run_vars>>

\* the delimiter that leaves the lines collected where they are
StartStoreSection_keeps_lines ==
    /\ store_pc = "scanning"
    /\ store_i <= Len(store_lines)
    /\ StoreLine # <<>>
    /\ is_store_delimiter(StoreLine)
    /\ stores' = save_store(UrlStores, stores, current_store, store_content_lines)
    /\ current_store' = NoStore
    /\ in_store_section' = TRUE
    /\ store_i' = store_i + 1
    /\ UNCHANGED <<store_lines, store_pc, store_content_lines,
                   text_vars, price_vars, clean_vars, menu_vars, food_vars, product_vars, descriptive_vars, crawl_vars, run_vars>>

\* the line is the delimiter (lines 467-490): the store read so far is
\* saved and the reading of a name begins
StartStoreSection ==
    /\ store_pc = "scanning"
    /\ store_i <= Len(store_lines)
    /\ StoreLine # <<>>
    /\ is_store_delimiter(StoreLine)
    /\ stores' = save_store(UrlStores, stores, current_store, store_content_lines)
    /\ current_store' = NoStore
    /\ store_content_lines' = <<>>
    /\ in_store_section' = TRUE
    /\ store_i' = store_i + 1
    /\ UNCHANGED <<store_lines, store_pc,
                   text_vars, price_vars, clean_vars, menu_vars, food_vars, product_vars, descriptive_vars, crawl_vars, run_vars>>

\* any other line (lines 493-607): it names the store, by itself or by its
\* address, or it is a detail of the store that is open, or it is passed over
ScanStoreLine ==
    /\ store_pc = "scanning"
    /\ store_i <= Len(store_lines)
    /\ StoreLine # <<>>
    /\ ~is_store_delimiter(StoreLine)
    /\ LET line == StoreLine
           naming == in_store_section /\ current_store = NoStore
           by_name == explicit_store_name(line)
           by_address == address_store_name(line)
       IN  IF naming /\ by_name # NoStore /\ by_name # <<>>
           THEN /\ current_store' = by_name
                /\ in_store_section' = FALSE
                /\ store_content_lines' =
                       IF Contains(line, <<"T", "E", "L", ":">>)
                       THEN Append(store_content_lines, From(line, Find(line, <<"T", "E", "L", ":">>)))
                       ELSE store_content_lines
                /\ UNCHANGED stores
           ELSE IF naming /\ by_address # NoStore
           THEN /\ current_store' = by_address
                /\ in_store_section' = FALSE
                /\ store_content_lines' = Append(store_content_lines, line)
                /\ UNCHANGED stores
           ELSE IF current_store # NoStore /\ is_store_detail(line)
           THEN /\ store_content_lines' =
                       IF ~InSeq(line, store_content_lines) /\ Len(line) > 3
                       THEN Append(store_content_lines, line)
                       ELSE store_content_lines
                /\ UNCHANGED <<stores, current_store, in_store_section>>
           ELSE IF current_store # NoStore /\ Contains(Lower(line), <<"G", "o", "o", "g", "l", "e", " ", "m", "a", "p">>)
           THEN /\ stores' = save_store(UrlStores, stores, current_store,
                                        store_content_lines)
                /\ current_store' = NoStore
                /\ store_content_lines' = <<>>
                /\ in_store_section' = TRUE
           ELSE UNCHANGED <<stores, current_store, store_content_lines,
                            in_store_section>>
    /\ store_i' = store_i + 1
    /\ UNCHANGED <<store_lines, store_pc,
                   text_vars, price_vars, clean_vars, menu_vars, food_vars, product_vars, descriptive_vars, crawl_vars, run_vars>>

\* the loop is over: the last store is saved and stores is returned
SaveLastStore ==
    /\ store_pc = "scanning"
    /\ store_i > Len(store_lines)
    /\ stores' = save_store(UrlStores, stores, current_store, store_content_lines)
    /\ store_pc' = "done"
    /\ UNCHANGED <<store_lines, store_i, current_store, store_content_lines,
                   in_store_section,
                   text_vars, price_vars, clean_vars, menu_vars, food_vars, product_vars, descriptive_vars, crawl_vars, run_vars>>

NextStore ==
    \/ SkipBlankLine
    \/ StartStoreSection
    \/ ScanStoreLine
    \/ SaveLastStore

SpecStore == InitStore /\ [][NextStore]_vars

----------------------------------------------------------------------------
(* Claims about parse_store_information *)

\* the names of the stores saved so far
StoreNames(sts) == {sts[k]["store_name"] : k \in 1..Len(sts)}

\* the record of the store that is open
OpenStoreRecord == store_data(UrlStores, current_store, store_content_lines)

\* the line of the iteration is the delimiter, the literal 'Google map'
AtDelimiter ==
    /\ store_pc = "scanning"
    /\ store_i <= Len(store_lines)
    /\ Strip(store_lines[store_i]) = <<"G", "o", "o", "g", "l", "e", " ", "m", "a", "p">>

\* C14: the records of parse_store_information have pairwise distinct
\* store_name; a record is built from the block that is open when it is
\* saved, the first of its name, and nothing read later adds a record of that
\* name or changes the record.
C14_DistinctStores ==
    /\ [](\A i, j \in 1..Len(stores) :
              i # j => stores[i]["store_name"] # stores[j]["store_name"])
    /\ [][ /\ Len(stores') >= Len(stores)
           /\ \A k \in 1..Len(stores) : stores'[k] = stores[k]
           /\ Len(stores') > Len(stores) =>
                  /\ stores' = Append(stores, OpenStoreRecord)
                  /\ current_store \notin StoreNames(stores) ]_vars

\* the block of one store has been read twice and saved once
C14_Witness ==
    /\ store_pc = "done"
    /\ Len(store_lines) = 4
    /\ Strip(store_lines[1]) = <<"G", "o", "o", "g", "l", "e", " ", "m", "a", "p">>
    /\ Strip(store_lines[3]) = <<"G", "o", "o", "g", "l", "e", " ", "m", "a", "p">>
    /\ store_lines[2] = store_lines[4]
    /\ Len(stores) = 1
    /\ stores[1]["store_name"] = current_store


\* the scanner is in the state name-pending, no store open and nothing collected
NamePending(cur, content, in_section) ==
    cur = NoStore /\ content = <<>> /\ in_section = TRUE

\* C15 as stated: a delimiter read while a store is open saves the store,
\* unless its name is saved already, and leaves the scanner name-pending.
C15_DelimiterEmitsOpenStore ==
    [][ (AtDelimiter /\ current_store # NoStore) =>
            /\ current_store \in StoreNames(stores')
            /\ NamePending(current_store', store_content_lines', in_store_section') ]_vars

\* C15: a delimiter read while a store is open saves the store when it holds
\* at least one detail line and its name is not saved already, saves nothing
\* otherwise, and in both cases leaves the scanner name-pending with no
\* current name and an empty buffer.
C15_DelimiterClosesStore ==
    [][ (AtDelimiter /\ current_store # NoStore) =>
            /\ IF store_content_lines # <<>> /\ current_store \notin StoreNames(stores)
               THEN stores' = Append(stores, OpenStoreRecord)
               ELSE stores' = stores
            /\ store_content_lines # <<>> => current_store \in StoreNames(stores')
            /\ NamePending(current_store', store_content_lines', in_store_section')
            /\ store_i' = store_i + 1 ]_vars

\* the third line, a delimiter, has just closed and saved the store of the
\* second line
C15_Witness ==
    /\ store_pc = "scanning"
    /\ store_i = 4
    /\ Strip(store_lines[3]) = <<"G", "o", "o", "g", "l", "e", " ", "m", "a", "p">>
    /\ Len(stores) = 1
    /\ NamePending(current_store, store_content_lines, in_store_section)


\* the lines are read to the end
AtEndOfStream == store_pc = "scanning" /\ store_i > Len(store_lines)

\* a store is open and holds at least one detail line
Collecting == current_store # NoStore /\ store_content_lines # <<>>

\* C16: at the end of the stream the store still open is saved if and only
\* if its name is resolved, it holds at least one detail line and its name is
\* not saved already; and a store that is open with at least one detail line
\* stays open as it is until it is saved, so that it is in the list returned.
C16_LastStoreSaved ==
    /\ [][ AtEndOfStream =>
               /\ store_pc' = "done"
               /\ IF Collecting /\ current_store \notin StoreNames(stores)
                  THEN stores' = Append(stores, OpenStoreRecord)
                  ELSE stores' = stores ]_vars
    /\ [][ Collecting =>
               \/ current_store' = current_store /\ store_content_lines' # <<>>
               \/ current_store \in StoreNames(stores') ]_vars
    /\ [][ StoreNames(stores) \subseteq StoreNames(stores') ]_vars
    /\ []((store_pc = "done" /\ Collecting) => current_store \in StoreNames(stores))

\* the stream has ended on an open store with a detail line, and the store
\* is the only one returned
C16_Witness ==
    /\ store_pc = "done"
    /\ Len(store_lines) = 2
    /\ Collecting
    /\ Len(stores) = 1
    /\ stores[1] = OpenStoreRecord


\* no line of the stream is the delimiter
NoDelimiter ==
    \A k \in 1..Len(store_lines) : Strip(store_lines[k]) # <<"G", "o", "o", "g", "l", "e", " ", "m", "a", "p">>

\* C17: when no line of the stream is the delimiter, no store is ever opened
\* or saved and parse_store_information returns the empty list, whatever
\* names, addresses and details the lines hold.
C17_NoDelimiterNoStores ==
    NoDelimiter =>
        /\ stores = <<>>
        /\ current_store = NoStore
        /\ store_content_lines = <<>>
        /\ store_pc \in {"scanning", "done"}

\* a stream with a store name, an address and a detail and no delimiter has
\* been read to its end
C17_Witness ==
    /\ store_pc = "done"
    /\ NoDelimiter
    /\ \E i, j, k \in 1..Len(store_lines) :
           /\ explicit_store_name(Strip(store_lines[i])) \notin {NoStore, <<>>}
           /\ address_store_name(Strip(store_lines[j])) # NoStore
           /\ is_store_detail(Strip(store_lines[k]))
           /\ Contains(store_lines[k], <<"O", "p", "e", "n">>)
    /\ stores = <<>>


----------------------------------------------------------------------------
(* Claims about the records clean_all returns *)

\* the text fields of a record: the strings and the entries of tags
TextFields(rec) ==
    {rec[f] : f \in {"title", "content", "menu_item", "store_name", "introduction"}
                       \cap DOMAIN rec}
    \cup {Get(rec, "tags")[i] : i \in 1..Len(Get(rec, "tags"))}

\* no '<...>' span that the tag pattern matches and no entity left to decode
HtmlFree(s) == StripTags(s) = s /\ unescape(s) = s

\* C18: every text field of every record clean_all returns is free of HTML:
\* no markup span and no undecoded character entity.
C18_HtmlFree ==
    clean_pc = "done" =>
        \A i \in 1..Len(articles) : \A s \in TextFields(articles[i]) : HtmlFree(s)


----------------------------------------------------------------------------
(* Claims about the form of the text clean_text returns *)

\* the whitespace normal form: no two spaces in a row, no three newlines in a
\* row, no line and no text with whitespace at an end
WhitespaceNormalForm(s) ==
    /\ ~Contains(s, <<" ", " ">>)
    /\ ~Contains(s, <<"\n", "\n", "\n">>)
    /\ \A k \in 1..Len(Split(s, "\n")) : Strip(Split(s, "\n")[k]) = Split(s, "\n")[k]
    /\ Strip(s) = s

\* C19: the text clean_text returns is in whitespace normal form, whatever
\* the text it is given.
C19_WhitespaceNormalForm == ncalls >= 1 => WhitespaceNormalForm(text)


\* the categories a Menu record may carry
ClosedCategories ==
    { <<"R", "a", "m", "e", "n">>, <<"T", "s", "u", "k", "e", "m", "e", "n">>, <<"N", "o", "o", "d", "l", "e", "s">>, <<"C", "h", "i", "-", "y", "u">>, <<"S", "i", "d", "e", " ", "D", "i", "s", "h", "e", "s">>, <<"D", "r", "i", "n", "k", "s">>,
      <<"S", "o", "u", "p">>, <<"O", "t", "h", "e", "r", "s">>, <<"G", "i", "f", "t", " ", "S", "e", "t">>, <<"S", "a", "u", "c", "e">>, <<"F", "r", "o", "z", "e", "n">>, <<"K", "i", "d", "s", " ", "M", "e", "n", "u">> }

\* C20: every Menu record clean_all returns has a menu_category, and it is
\* one of the closed set of categories.
C20_ClosedCategory ==
    clean_pc = "done" =>
        \A i \in 1..Len(articles) :
            articles[i]["section"] = SectionMenu =>
                /\ "menu_category" \in DOMAIN articles[i]
                /\ articles[i]["menu_category"] \in ClosedCategories


\* the optional fields of a record
OptionalFields ==
    {"price", "price_range", "tags", "store_name", "menu_item", "menu_category",
     "introduction", "date"}

\* C21: in every record clean_article returns an optional field is present
\* only with a value: none is an empty string or an empty list.
C21_NoEmptyOptionalField ==
    \A i \in 1..Len(cleaned_articles) :
        \A f \in OptionalFields \cap DOMAIN cleaned_articles[i] :
            cleaned_articles[i][f] # <<>>


----------------------------------------------------------------------------
(* SpecProduct: RamenScraper.parse_product_detail(soup, url) on one page of
   the shop. *)

ProductUrls ==
    { <<"h", "t", "t", "p", "s", ":", "/", "/", "s", "h", "o", "p", ".", "a", "f", "u", "r", "i", ".", "c", "o", "m", "/", "e", "n", "/", "p", "r", "o", "d", "u", "c", "t", "s", "/", "r", "a", "0", "0", "0", "5", "0", "0", "0", "2", "0", "0", "6">>,
      <<"h", "t", "t", "p", "s", ":", "/", "/", "s", "h", "o", "p", ".", "a", "f", "u", "r", "i", ".", "c", "o", "m", "/", "e", "n", "/", "p", "r", "o", "d", "u", "c", "t", "s", "/", "M", "E", "0", "0", "0", "1", "?", "v", "a", "r", "i", "a", "n", "t", "=", "1">>,
      <<"h", "t", "t", "p", "s", ":", "/", "/", "s", "h", "o", "p", ".", "a", "f", "u", "r", "i", ".", "c", "o", "m", "/", "p", "r", "o", "d", "u", "c", "t", "s", "/", "t", "u", "0", "0", "0", "2", "/">>,
      <<"h", "t", "t", "p", "s", ":", "/", "/", "s", "h", "o", "p", ".", "a", "f", "u", "r", "i", ".", "c", "o", "m", "/", "p", "r", "o", "d", "u", "c", "t", "s", "/", "n", "i", "0", "0", "0", "3">>,
      <<"h", "t", "t", "p", "s", ":", "/", "/", "s", "h", "o", "p", ".", "a", "f", "u", "r", "i", ".", "c", "o", "m", "/", "p", "r", "o", "d", "u", "c", "t", "s", "/", "s", "r", "0", "0", "0", "4">>,
      <<"h", "t", "t", "p", "s", ":", "/", "/", "s", "h", "o", "p", ".", "a", "f", "u", "r", "i", ".", "c", "o", "m", "/", "p", "r", "o", "d", "u", "c", "t", "s", "/", "t", "p", "0", "0", "0", "5">>,
      <<"h", "t", "t", "p", "s", ":", "/", "/", "s", "h", "o", "p", ".", "a", "f", "u", "r", "i", ".", "c", "o", "m", "/", "p", "r", "o", "d", "u", "c", "t", "s", "/", "g", "i", "f", "t", "-", "b", "o", "x">>,
      <<"h", "t", "t", "p", "s", ":", "/", "/", "s", "h", "o", "p", ".", "a", "f", "u", "r", "i", ".", "c", "o", "m", "/", "p", "r", "o", "d", "u", "c", "t", "s", "/">>,
      <<"h", "t", "t", "p", "s", ":", "/", "/", "s", "h", "o", "p", ".", "a", "f", "u", "r", "i", ".", "c", "o", "m", "/", "e", "n", "/", "c", "o", "l", "l", "e", "c", "t", "i", "o", "n", "s", "/", "a", "l", "l">> }

ProductTitles ==
    { NoElement,
      <<" ", "Y", "u", "z", "u", " ", "S", "h", "i", "o", " ", "R", "a", "m", "e", "n", " ">>,
      <<"Y", "u", "z", "u", " ", "T", "s", "u", "k", "e", "m", "e", "n", " ", "S", "e", "t">>,
      <<"Y", "U", "Z", "U", " ", "H", "A", "Z", "Y", " ", "I", "P", "A">>,
      <<"C", "r", "a", "f", "t", " ", "I", "P", "A", " ", "3", "5", "0", "m", "l">>,
      <<"R", "a", "m", "e", "n", " ", "S", "o", "u", "p">>,
      <<"Y", "u", "z", "u", " ", "J", "u", "i", "c", "e">>,
      <<"T", "e", "m", "o", "m", "i", " ", "N", "o", "o", "d", "l", "e">>,
      <<"C", "h", "a", "s", "h", "u", " ", "T", "o", "p", "p", "i", "n", "g">>,
      <<"G", "i", "f", "t", " ", "B", "o", "x", " ", "3", "u00E5", "u201C">> }

ProductDescriptions ==
    { NoElement,
      <<"d", "i", "p", "p", "i", "n", "g", " ", "t", "s", "u", "k", "e", "m", "e", "n", " ", "n", "o", "o", "d", "l", "e", "s">>,
      <<"I", "n", "g", "r", "e", "d", "i", "e", "n", "t", "s", ":", " ", "w", "h", "e", "a", "t", ",", " ", "s", "a", "l", "t", " ", "\n", "k", "e", "e", "p", " ", "c", "o", "o", "l">>,
      <<"t", "h", "i", "n", " ", "r", "a", "m", "e", "n", " ", "n", "o", "o", "d", "l", "e", ".", " ", "I", "N", "G", "R", "E", "D", "I", "E", "N", "T", "\n", ":", "\n">> }

ProductCategoryElems == { NoElement, <<" ", "D", "r", "i", "n", "k", "s", " ">>, <<"T", "s", "u", "k", "e", "m", "e", "n">>, <<"A", "l", "l", " ", "p", "r", "o", "d", "u", "c", "t", "s">> }

ProductPrices == { NoElement, <<" ", "YEN", "1", ",", "0", "0", "0", " ">> }

ProductImages ==
    { <<>>,
      <<<<"h", "t", "t", "p", "s", ":", "/", "/", "i", "/", "1", ".", "j", "p", "g">>>>,
      <<<<"h", "t", "t", "p", "s", ":", "/", "/", "i", "/", "1", ".", "j", "p", "g">>, <<"h", "t", "t", "p", "s", ":", "/", "/", "i", "/", "1", ".", "j", "p", "g">>>>,
      <<<<"h", "t", "t", "p", "s", ":", "/", "/", "i", "/", "1", ".", "j", "p", "g">>, <<"h", "t", "t", "p", "s", ":", "/", "/", "i", "/", "2", ".", "j", "p", "g">>>> }

ProductSoups ==
    [title : ProductTitles, description : ProductDescriptions,
     category : ProductCategoryElems, price : ProductPrices, images : ProductImages]

InitProduct ==
    /\ product_soup \in ProductSoups
    /\ product_url \in ProductUrls
    /\ product_data = <<>>
    /\ product_pc = "fetched"
    /\ TextIdle /\ PriceIdle /\ CleanIdle /\ MenuIdle /\ FoodIdle /\ StoreIdle /\ DescriptiveIdle /\ CrawlIdle /\ RunIdle

\* product_data = self.parse_product_detail(soup, product_url)
ParseProductDetail ==
    /\ product_pc = "fetched"
    /\ product_data' = parse_product_detail(product_soup, product_url)
    /\ product_pc' = "parsed"
    /\ UNCHANGED <<product_soup, product_url,
                   text_vars, price_vars, clean_vars, menu_vars, food_vars, store_vars, descriptive_vars, crawl_vars, run_vars>>

NextProduct == ParseProductDetail

SpecProduct == InitProduct /\ [][NextProduct]_vars


\* the categories of the recognised prefixes of a product id
PrefixCategories ==
    << <<<<"r", "a">>, <<"R", "a", "m", "e", "n">>>>, <<<<"m", "e">>, <<"N", "o", "o", "d", "l", "e", "s">>>>, <<<<"t", "u">>, <<"T", "s", "u", "k", "e", "m", "e", "n">>>>,
       <<<<"n", "i">>, <<"S", "i", "d", "e", " ", "D", "i", "s", "h", "e", "s">>>>, <<<<"s", "r">>, <<"S", "i", "d", "e", " ", "D", "i", "s", "h", "e", "s">>>> >>

\* the product id of the URL has the k-th recognised prefix
HasPrefix(k) ==
    /\ product_id_of(product_url) # NoProductId
    /\ StartsWith(product_id_of(product_url), PrefixCategories[k][1])

\* the title of the parsed product marks an IPA drink
IpaTitle ==
    LET t == Lower(product_data["title"])
    IN  \/ Contains(t, <<"y", "u", "z", "u", " ", "h", "a", "z", "y", " ", "i", "p", "a">>)
        \/ Contains(t, <<"i", "p", "a", " ", "3", "5", "0", "m", "l">>)
        \/ Contains(t, <<"i", "p", "a">>) /\ (Contains(t, <<"3", "7", "0", "m", "l">>) \/ Contains(t, <<"3", "5", "0", "m", "l">>))

\* C23 as stated: a product whose URL carries an id of a recognised prefix has
\* the category of the prefix, whatever its title and description.
C23_PrefixDecides ==
    product_pc = "parsed" =>
        \A k \in 1..Len(PrefixCategories) :
            HasPrefix(k) => product_data["menu_category"] = PrefixCategories[k][2]

\* C23: a product whose URL carries an id of a recognised prefix has the
\* category of the prefix whatever its title and description, unless its
\* title marks an IPA drink, and then it has the category Drinks.
C23_PrefixDecidesUnlessIpa ==
    product_pc = "parsed" =>
        \A k \in 1..Len(PrefixCategories) :
            HasPrefix(k) =>
                product_data["menu_category"] =
                    IF IpaTitle THEN <<"D", "r", "i", "n", "k", "s">> ELSE PrefixCategories[k][2]

\* a product of the prefix ra whose title names a tsukemen is a Ramen
C23_Witness ==
    /\ product_pc = "parsed"
    /\ HasPrefix(1)
    /\ Contains(Lower(product_data["title"]), <<"t", "s", "u", "k", "e", "m", "e", "n">>)
    /\ product_data["menu_category"] = <<"R", "a", "m", "e", "n">>

\* C22: a product whose name contains 'tsukemen' in any case, and is no drink
\* by its name, has the category Tsukemen, whatever its URL.
C22_TsukemenFirst ==
    (/\ product_pc = "parsed"
     /\ Contains(Lower(product_data["menu_item"]), <<"t", "s", "u", "k", "e", "m", "e", "n">>)
     /\ ~IpaTitle)
        => product_data["menu_category"] = <<"T", "s", "u", "k", "e", "m", "e", "n">>


----------------------------------------------------------------------------
(* Claims about the content the sweep of parse_menu_page keeps *)

\* the lines of the content of a record after its first, the line of the name
LinesAfterName(rec) ==
    LET lines == Split(rec["content"], "\n")
    IN  {Strip(lines[k]) : k \in 2..Len(lines)}

\* the line begins with a known name that is not the name of the record
BeginsOtherItem(line, item_name) ==
    \E k \in 1..Len(menu_item_names) :
        menu_item_names[k] # item_name /\ StartsWith(line, menu_item_names[k])

\* C24: the content of a record of the sweep holds, after the name, no line
\* that begins with another known item name and no section-end marker line.
C24_ContentStopsAtNextItem ==
    \A i \in 1..Len(menu_items) :
        "introduction" \in DOMAIN menu_items[i] =>
            \A line \in LinesAfterName(menu_items[i]) :
                /\ ~BeginsOtherItem(line, menu_items[i]["menu_item"])
                /\ ~InSeq(line, section_markers)


----------------------------------------------------------------------------
(* SpecDescriptive: RamenScraper.is_descriptive_text applied to a candidate
   name: a beginning and what follows it. *)

CandidateHeads ==
    { <<>>, <<"N", "o", "r", "i">>, <<"G", "o", "h", "a", "n">>, <<"M", "e", "n", "m", "a">>, <<"D", "r", "a", "f", "t", " ", "B", "e", "e", "r">>, <<"S", "h", "i", "o", " ", "R", "a", "m", "e", "n">>,
      <<"Y", "u", "z", "u", " ", "S", "h", "i", "o", " ", "R", "a", "m", "e", "n">>, <<"K", "a", "r", "a", "-", "t", "s", "u", "y", "u", " ", "T", "s", "u", "k", "e", "m", "e", "n">>, <<"P", "o", "r", "k", " ", "N", "i", "k", "u", " ", "G", "o", "h", "a", "n">>,
      <<"W", "h", "i", "s", "k", "y", " ", "S", "o", "d", "a", " ", "A", "F", "U", "R", "I", "'", "s", " ", "s", "t", "y", "l", "e">>, <<"A", "F", "U", "R", "I", "u306E">>, <<"S", "e", "a", "s", "o", "n", "a", "l">> }

CandidateTails ==
    { <<>>,
      <<" ", "7", " ", "p", "i", "e", "c", "e", "s">>,
      <<"u306F", "u3001", "u304A", "u597D", "u307F", "u3067">>,
      <<"u3001", "u306E", "u91CF", "u3092">>,
      <<"u3002">>,
      <<" ", "w", "i", "t", "h", " ", "a", " ", "s", "o", "f", "t", " ", "b", "o", "i", "l", "e", "d", " ", "e", "g", "g", ",", " ", "f", "r", "o", "m", " ", "a", " ", "f", "a", "r", "m", " ", "a", "t", " ", "t", "h", "e", " ", "f", "o", "o", "t", " ", "o", "f", " ", "M", "t", ".", " ", "A", "f", "u", "r", "i", ",", " ", "K", "a", "n", "a", "g", "a", "w", "a">>,
      <<"u3001", "c", "r", "i", "s", "p", " ", "s", "h", "e", "e", "t", "s", " ", "o", "f", " ", "s", "e", "a", "w", "e", "e", "d", " ", "f", "r", "o", "m", " ", "t", "h", "e", " ", "b", "a", "y", "u3002">>,
      <<" ", "(", "l", "a", "r", "g", "e", ")">> }

Candidates == {h \o t : h \in CandidateHeads, t \in CandidateTails}

InitDescriptive ==
    /\ candidate \in Candidates
    /\ is_descriptive = FALSE
    /\ descriptive_pc = "asked"
    /\ TextIdle /\ PriceIdle /\ CleanIdle /\ MenuIdle /\ FoodIdle /\ StoreIdle /\ ProductIdle /\ CrawlIdle /\ RunIdle

\* self.is_descriptive_text(item_name)
IsDescriptiveText ==
    /\ descriptive_pc = "asked"
    /\ is_descriptive' = is_descriptive_text(candidate)
    /\ descriptive_pc' = "answered"
    /\ UNCHANGED <<candidate, text_vars, price_vars, clean_vars, menu_vars, food_vars,
                   store_vars, product_vars, crawl_vars, run_vars>>

NextDescriptive == IsDescriptiveText

SpecDescriptive == InitDescriptive /\ [][NextDescriptive]_vars

\* the candidate is a name of the whitelist
IsKnownItem == InSeq(candidate, known_menu_items)

\* the candidate begins with a name of the whitelist of more than n characters
BeginsKnownItem(n) ==
    \E k \in 1..Len(known_menu_items) :
        Len(known_menu_items[k]) > n /\ StartsWith(candidate, known_menu_items[k])

\* the candidate matches a rule of rejection: an opener, two markers, the
\* length, or the punctuation of a sentence
MatchesRejection ==
    \/ \E i \in 1..Len(descriptive_prefixes) : StartsWith(candidate, descriptive_prefixes[i])
    \/ pattern_count(candidate) >= 2
    \/ Len(candidate) > 60
    \/ (Contains(candidate, <<"u3002">>) \/ Contains(candidate, <<"u3001">>)) /\ Len(candidate) > 30

\* C25 as stated: is_descriptive_text returns False for every candidate that
\* is a name of the whitelist or begins with one, whatever the length of the
\* name.
C25_WhitelistOverrides ==
    (descriptive_pc = "answered" /\ (IsKnownItem \/ BeginsKnownItem(0)))
        => is_descriptive = FALSE

\* C25: is_descriptive_text returns False for every candidate that is a name
\* of the whitelist or begins with a name of the whitelist of more than 10
\* characters, whichever rules of rejection the candidate matches.
C25_LongWhitelistOverrides ==
    (descriptive_pc = "answered" /\ (IsKnownItem \/ BeginsKnownItem(10)))
        => is_descriptive = FALSE

\* a candidate that begins with a long name of the whitelist and matches a
\* rule of rejection has been answered False
C25_Witness ==
    /\ descriptive_pc = "answered"
    /\ ~IsKnownItem
    /\ BeginsKnownItem(10)
    /\ MatchesRejection
    /\ is_descriptive = FALSE


\* the line of the iteration holds the marker 'Google map' in some letter case
AtMarkerLine ==
    /\ store_pc = "scanning"
    /\ store_i <= Len(store_lines)
    /\ Contains(Lower(Strip(store_lines[store_i])), <<"g", "o", "o", "g", "l", "e", " ", "m", "a", "p">>)

\* C26: every line that holds the marker 'Google map', in any letter case and
\* with whatever around it, is a delimiter: it closes the store that is open
\* and opens a store section.
C26_MarkerInAnyLine ==
    [][ AtMarkerLine =>
            NamePending(current_store', store_content_lines', in_store_section') ]_vars


----------------------------------------------------------------------------
(* Claims about the counters of clean_all *)

\* C27: when clean_all is done, stats['removed'] is the number of the records
\* loaded that are not returned: every invalid record and every duplicate is
\* counted once.
C27_RemovedCountsDropped ==
    clean_pc = "done" => stats.removed = stats.total - Len(articles)


----------------------------------------------------------------------------
(* RamenScraper.scrape_ippudo_stores and scrape_ippudo_stores_recursive.

   The site is a function from URL to page; get_page returns None for a URL
   outside its domain.  Every href of the site is absolute, so urljoin gives
   the href itself.  A page holds what the crawl reads of its soup: the links
   of its Directory-listLinks, the first link of every ResultList item, every
   a[href] in document order, and the store name parse_ippudo_store_detail
   finds (empty when it returns None).  The recursion is an explicit stack of
   frames; prefecture_name only labels the stores and is left out. *)

MaxDepth == 2          \* largest max_depth given to a crawl

\* re.search(r'/en/\d+', url)
is_store_detail_url(url) ==
    \E i \in 1..Len(url) :
        /\ StartsWithAt(url, i, <<"/", "e", "n", "/">>)
        /\ i + 4 <= Len(url)
        /\ url[i + 4] \in Digits

\* list(dict.fromkeys(xs))
RECURSIVE unique_in_order(_)
unique_in_order(xs) ==
    IF xs = <<>> THEN <<>>
    ELSE LET init == unique_in_order(SubSeq(xs, 1, Len(xs) - 1))
             x == xs[Len(xs)]
         IN  IF InSeq(x, init) THEN init ELSE Append(init, x)

SitePage(directory, result_list, other_links, store_name) ==
    [directory |-> directory, result_list |-> result_list,
     all_links |-> directory \o result_list \o other_links,
     store_name |-> store_name]

get_page(url) == url \in DOMAIN site

\* the store listings of a directory page: the ResultList links to store
\* detail pages, or else every other link to one that is neither visited nor a
\* directory link
store_listings_of(soup) ==
    LET listed == SelectSeq(soup.result_list, is_store_detail_url)
        IsLoose(href) ==
            /\ is_store_detail_url(href)
            /\ href \notin visited_urls'
            /\ ~InSeq(href, soup.directory)
    IN  unique_in_order(IF listed # <<>> THEN listed
                        ELSE SelectSeq(soup.all_links, IsLoose))

\* parse_ippudo_store_detail as the crawl uses it: a list of one store, or none
parse_ippudo_store_detail(url) ==
    IF site[url].store_name = <<>> THEN <<>>
    ELSE <<[store_name |-> site[url].store_name, url |-> url]>>

DirectoryTitleKeywords == {<<"S", "t", "o", "r", "e", "s", " ", "i", "n">>, <<"S", "t", "o", "r", "e", " ", "i", "n">>, <<"u5E97", "u8217">>, <<"D", "i", "r", "e", "c", "t", "o", "r", "y">>}

\* a page with no links at all, read as a store unless its name is a
\* directory title
parse_as_store(url) ==
    LET found == parse_ippudo_store_detail(url)
    IN  IF found # <<>> /\ \A keyword \in DirectoryTitleKeywords :
                                ~Contains(found[1].store_name, keyword)
        THEN found ELSE <<>>

NewFrame(url, current_depth) ==
    [url |-> url, current_depth |-> current_depth, pc |-> "enter",
     store_listings |-> <<>>, directory_links |-> <<>>, had_listings |-> FALSE,
     stores |-> <<>>]

TopFrame == call_stack[Len(call_stack)]

SetTop(frame) == [call_stack EXCEPT ![Len(call_stack)] = frame]

\* the loop of scrape_ippudo_stores over the stores one prefecture returned
RECURSIVE add_stores(_, _)
add_stores(kept, found) ==
    IF found = <<>> THEN kept
    ELSE add_stores(IF \E i \in 1..Len(kept) : kept[i].store_name = found[1].store_name
                    THEN kept ELSE Append(kept, found[1]),
                    Tail(found))

\* return of the running call: its stores extend those of the caller
ReturnStores(found) ==
    IF Len(call_stack) = 1
    THEN /\ call_stack' = <<>>
         /\ all_stores' = add_stores(all_stores, found)
    ELSE /\ call_stack' =
                LET caller == call_stack[Len(call_stack) - 1]
                IN  SubSeq(call_stack, 1, Len(call_stack) - 2)
                        \o <<[caller EXCEPT !.stores = @ \o found]>>
         /\ UNCHANGED all_stores

visited_only(url, current_depth) == url \in visited_urls

\* the early return of line 2061
already_covered(url, current_depth) ==
    url \in visited_urls \/ current_depth > max_depth

DirA == <<"/", "e", "n", "/", "a">>
DirB == <<"/", "e", "n", "/", "b">>
DirC == <<"/", "e", "n", "/", "c">>
DirD == <<"/", "e", "n", "/", "d">>
Leaf == <<"/", "e", "n", "/", "s">>
Store1 == <<"/", "e", "n", "/", "1">>
Store2 == <<"/", "e", "n", "/", "2">>
Store3 == <<"/", "e", "n", "/", "3">>

Ginza == SitePage(<<>>, <<>>, <<>>, <<"I", "p", "p", "u", "d", "o", " ", "G", "i", "n", "z", "a">>)
Ebisu == SitePage(<<>>, <<>>, <<>>, <<"I", "p", "p", "u", "d", "o", " ", "E", "b", "i", "s", "u">>)

\* two directory pages list the same store
SiteShared ==
    (DirA :> SitePage(<<DirB, DirC>>, <<>>, <<>>, <<"S", "t", "o", "r", "e", "s", " ", "i", "n", " ", "J", "a", "p", "a", "n">>)) @@
    (DirB :> SitePage(<<>>, <<Store1, Store2>>, <<>>, <<"S", "t", "o", "r", "e", "s", " ", "i", "n", " ", "T", "o", "k", "y", "o">>)) @@
    (DirC :> SitePage(<<>>, <<Store2>>, <<>>, <<"S", "t", "o", "r", "e", "s", " ", "i", "n", " ", "O", "s", "a", "k", "a">>)) @@
    (Store1 :> Ginza) @@ (Store2 :> Ebisu)

\* directory pages that link to each other and to themselves
SiteCycle ==
    (DirA :> SitePage(<<DirB, DirA>>, <<>>, <<>>, <<"S", "t", "o", "r", "e", "s", " ", "i", "n", " ", "J", "a", "p", "a", "n">>)) @@
    (DirB :> SitePage(<<DirA, DirB, DirC>>, <<>>, <<>>, <<"S", "t", "o", "r", "e", "s", " ", "i", "n", " ", "T", "o", "k", "y", "o">>)) @@
    (DirC :> SitePage(<<>>, <<>>, <<>>, <<"S", "t", "o", "r", "e", "s", " ", "i", "n", " ", "M", "i", "n", "a", "t", "o">>))

\* a chain of directory pages longer than max_depth
SiteChain ==
    (DirA :> SitePage(<<DirB>>, <<>>, <<>>, <<>>)) @@
    (DirB :> SitePage(<<DirC>>, <<>>, <<>>, <<>>)) @@
    (DirC :> SitePage(<<DirD>>, <<>>, <<>>, <<>>)) @@
    (DirD :> SitePage(<<Store1>>, <<>>, <<>>, <<>>)) @@
    (Store1 :> Ginza)

\* stores linked outside of any list, a missing page and a page that is a store
SiteLoose ==
    (DirA :> SitePage(<<Leaf, Store2>>, <<DirB>>, <<Store1, Store1, Store3>>, <<>>)) @@
    (Leaf :> SitePage(<<>>, <<>>, <<>>, <<"I", "p", "p", "u", "d", "o", " ", "L", "a", "b">>)) @@
    (Store1 :> Ginza) @@ (Store2 :> Ebisu)

Sites == {SiteShared, SiteCycle, SiteChain, SiteLoose}

PrefectureLists == {<<DirA>>, <<DirA, DirB>>, <<DirC, DirA>>}

InitCrawl ==
    /\ site \in Sites
    /\ max_depth \in 0..MaxDepth
    /\ prefecture_links \in PrefectureLists
    /\ visited_urls = {}
    /\ call_stack = <<>>
    /\ get_page_log = <<>>
    /\ all_stores = <<>>
    /\ crawl_pc = "loop"
    /\ TextIdle /\ PriceIdle /\ CleanIdle /\ MenuIdle /\ FoodIdle /\ StoreIdle /\ ProductIdle /\ DescriptiveIdle /\ RunIdle

OtherThanCrawl == <<text_vars, price_vars, clean_vars, menu_vars, food_vars, store_vars, product_vars, descriptive_vars, run_vars>>

\* scrape_ippudo_stores calls the recursion for the next prefecture
CallRecursive ==
    /\ crawl_pc = "loop"
    /\ call_stack = <<>>
    /\ prefecture_links # <<>>
    /\ call_stack' = <<NewFrame(Head(prefecture_links), 0)>>
    /\ prefecture_links' = Tail(prefecture_links)
    /\ UNCHANGED <<site, max_depth, visited_urls, get_page_log, all_stores, crawl_pc>>
    /\ UNCHANGED OtherThanCrawl

\* a call from its entry to its store listings: lines 2056-2124
EnterPage ==
    /\ call_stack # <<>>
    /\ TopFrame.pc = "enter"
    /\ LET url == TopFrame.url
           depth == TopFrame.current_depth
       IN  IF already_covered(url, depth)
           THEN /\ ReturnStores(<<>>)
                /\ UNCHANGED <<visited_urls, get_page_log>>
           ELSE /\ visited_urls' = visited_urls \cup {url}
                /\ get_page_log' = Append(get_page_log, [url |-> url, depth |-> depth])
                /\ IF ~get_page(url) THEN ReturnStores(<<>>)
                   ELSE IF is_store_detail_url(url)
                   THEN ReturnStores(parse_ippudo_store_detail(url))
                   ELSE /\ call_stack' =
                               LET listings == store_listings_of(site[url])
                               IN  SetTop([TopFrame EXCEPT
                                       !.pc = "listings",
                                       !.store_listings = listings,
                                       !.directory_links = site[url].directory,
                                       !.had_listings = listings # <<>>])
                        /\ UNCHANGED all_stores
    /\ UNCHANGED <<site, max_depth, prefecture_links, crawl_pc>>
    /\ UNCHANGED OtherThanCrawl

\* one iteration of the loop over store_listings: lines 2127-2137
FetchListing ==
    /\ call_stack # <<>>
    /\ TopFrame.pc = "listings"
    /\ TopFrame.store_listings # <<>>
    /\ LET store_url == Head(TopFrame.store_listings)
           fetch == store_url \notin visited_urls
           found == IF fetch /\ get_page(store_url)
                    THEN parse_ippudo_store_detail(store_url) ELSE <<>>
       IN  /\ get_page_log' =
                  IF fetch
                  THEN Append(get_page_log, [url |-> store_url, depth |-> TopFrame.current_depth])
                  ELSE get_page_log
           /\ call_stack' = SetTop([TopFrame EXCEPT
                                       !.store_listings = Tail(@),
                                       !.stores = @ \o found])
    /\ UNCHANGED <<site, max_depth, prefecture_links, visited_urls, all_stores, crawl_pc>>
    /\ UNCHANGED OtherThanCrawl

\* after the store listings: on to the directory links, or the page itself is
\* read as a store: lines 2139-2140 and 2155-2165
AfterListings ==
    /\ call_stack # <<>>
    /\ TopFrame.pc = "listings"
    /\ TopFrame.store_listings = <<>>
    /\ IF TopFrame.directory_links # <<>>
       THEN /\ call_stack' = SetTop([TopFrame EXCEPT !.pc = "links"])
            /\ UNCHANGED all_stores
       ELSE IF ~TopFrame.had_listings
       THEN ReturnStores(TopFrame.stores \o parse_as_store(TopFrame.url))
       ELSE ReturnStores(TopFrame.stores)
    /\ UNCHANGED <<site, max_depth, prefecture_links, visited_urls, get_page_log, crawl_pc>>
    /\ UNCHANGED OtherThanCrawl

\* the recursive call for the next directory link: lines 2142-2153
RecurseLink ==
    /\ call_stack # <<>>
    /\ TopFrame.pc = "links"
    /\ TopFrame.directory_links # <<>>
    /\ call_stack' =
           Append(SetTop([TopFrame EXCEPT !.directory_links = Tail(@)]),
                  NewFrame(Head(TopFrame.directory_links), TopFrame.current_depth + 1))
    /\ UNCHANGED <<site, max_depth, prefecture_links, visited_urls, get_page_log, all_stores, crawl_pc>>
    /\ UNCHANGED OtherThanCrawl

\* the return after the last directory link: line 2165
ReturnAfterLinks ==
    /\ call_stack # <<>>
    /\ TopFrame.pc = "links"
    /\ TopFrame.directory_links = <<>>
    /\ ReturnStores(TopFrame.stores)
    /\ UNCHANGED <<site, max_depth, prefecture_links, visited_urls, get_page_log, crawl_pc>>
    /\ UNCHANGED OtherThanCrawl

\* the end of the loop over the prefectures
FinishCrawl ==
    /\ crawl_pc = "loop"
    /\ call_stack = <<>>
    /\ prefecture_links = <<>>
    /\ crawl_pc' = "done"
    /\ UNCHANGED <<site, max_depth, prefecture_links, visited_urls, call_stack, get_page_log, all_stores>>
    /\ UNCHANGED OtherThanCrawl

NextCrawl ==
    \/ CallRecursive
    \/ EnterPage
    \/ FetchListing
    \/ AfterListings
    \/ RecurseLink
    \/ ReturnAfterLinks
    \/ FinishCrawl

SpecCrawl == InitCrawl /\ [][NextCrawl]_vars

\* the interpreter runs the crawl to its end
FairSpecCrawl == SpecCrawl /\ WF_vars(NextCrawl)

----------------------------------------------------------------------------
(* Claims about the crawl *)

FetchesOf(url) == {i \in 1..Len(get_page_log) : get_page_log[i].url = url}

\* C28: in one crawl with a shared visited_urls no URL is given to get_page
\* twice, be it a directory page or a store detail page, and also when several
\* directory pages or prefectures link the same store.
C28_FetchedAtMostOnce ==
    \A i, j \in 1..Len(get_page_log) :
        get_page_log[i].url = get_page_log[j].url => i = j


\* C29: the crawl comes to its end on every site of finitely many pages, the
\* sites whose directory pages link to each other or to themselves included,
\* and no page is fetched by a call deeper than max_depth.
C29_TerminatesWithinDepth ==
    /\ [](\A i \in 1..Len(get_page_log) : get_page_log[i].depth <= max_depth)
    /\ <>(crawl_pc = "done")

\* the crawl of a site with a directory page that links to itself has ended,
\* that page and a page at the depth max_depth were fetched
C29_Witness ==
    /\ crawl_pc = "done"
    /\ \E url \in DOMAIN site :
           InSeq(url, site[url].directory) /\ FetchesOf(url) # {}
    /\ \E i \in 1..Len(get_page_log) : get_page_log[i].depth = max_depth


----------------------------------------------------------------------------
(* PipelineRunner.run.

   runner holds the flags of the constructor, data_files tells which of
   data/scraped_data.json and data/cleaned_data.json exist, run_log is the
   sequence of the steps called with what each returned, and run_result is
   empty until run returns.  What the scraper, the cleaner, the indexer, Solr
   and the services do is an outcome chosen by the environment. *)

StepOutcomes == {"ok", "failed", "raised"}

\* `if not self.skip_...: return False` after a step that returned False
stops_when_skipped(skip) == skip

stops_run(skip) == ~skip

InitRun ==
    /\ runner \in [skip_scrape : BOOLEAN, skip_clean : BOOLEAN, skip_index : BOOLEAN,
                   start_frontend : BOOLEAN, configure_solr : BOOLEAN]
    /\ data_files \in [scraped : BOOLEAN, cleaned : BOOLEAN]
    /\ success = TRUE
    /\ errors = <<>>
    /\ run_log = <<>>
    /\ run_result = <<>>
    /\ run_pc = "configure"
    /\ TextIdle /\ PriceIdle /\ CleanIdle /\ MenuIdle /\ FoodIdle /\ StoreIdle /\ ProductIdle /\ DescriptiveIdle /\ CrawlIdle

OtherThanRun == <<text_vars, price_vars, clean_vars, menu_vars, food_vars, store_vars, product_vars, descriptive_vars, crawl_vars>>

\* what run does with the value a step returned: lines 806-822
AfterStep(step, ok, skip, next_pc) ==
    /\ run_log' = Append(run_log, [step |-> step, ok |-> ok])
    /\ success' = (success /\ ok)
    /\ IF ~ok /\ stops_run(skip)
       THEN run_pc' = "returned" /\ run_result' = <<FALSE>>
       ELSE run_pc' = next_pc /\ UNCHANGED run_result

\* step0_configure_solr, when asked for; its failure does not stop the run
Step0ConfigureSolr ==
    /\ run_pc = "configure"
    /\ \E outcome \in StepOutcomes :
           IF runner.configure_solr
           THEN /\ run_log' = Append(run_log, [step |-> "configure", ok |-> outcome = "ok"])
                /\ errors' = IF outcome = "ok" THEN errors ELSE Append(errors, "configure")
           ELSE UNCHANGED <<run_log, errors>>
    /\ run_pc' = "scrape"
    /\ UNCHANGED <<runner, data_files, success, run_result>>
    /\ UNCHANGED OtherThanRun

Step1Scrape ==
    /\ run_pc = "scrape"
    /\ \E outcome \in StepOutcomes :
           LET saved == ~runner.skip_scrape /\ outcome = "ok"
               raised == ~runner.skip_scrape /\ outcome = "raised"
           IN  /\ data_files' = IF saved THEN [data_files EXCEPT !.scraped = TRUE]
                                ELSE data_files
               /\ errors' = IF raised THEN Append(errors, "scrape") ELSE errors
               /\ AfterStep("scrape", runner.skip_scrape \/ saved, runner.skip_scrape, "clean")
    /\ UNCHANGED runner
    /\ UNCHANGED OtherThanRun

Step2Clean ==
    /\ run_pc = "clean"
    /\ \E outcome \in StepOutcomes :
           LET runs == ~runner.skip_clean /\ data_files.scraped
               cleaned == runs /\ outcome = "ok"
               raised == runs /\ outcome = "raised"
           IN  /\ data_files' = IF cleaned THEN [data_files EXCEPT !.cleaned = TRUE]
                                ELSE data_files
               /\ errors' = IF raised THEN Append(errors, "clean") ELSE errors
               /\ AfterStep("clean", runner.skip_clean \/ cleaned, runner.skip_clean, "index")
    /\ UNCHANGED runner
    /\ UNCHANGED OtherThanRun

Step3Index ==
    /\ run_pc = "index"
    /\ \E outcome \in StepOutcomes :
           LET runs == ~runner.skip_index /\ data_files.cleaned
               indexed == runs /\ outcome = "ok"
               raised == runs /\ outcome = "raised"
           IN  /\ errors' = IF raised THEN Append(errors, "index") ELSE errors
               /\ AfterStep("index", runner.skip_index \/ indexed, runner.skip_index, "services")
    /\ UNCHANGED <<runner, data_files>>
    /\ UNCHANGED OtherThanRun

\* step4_start_services, called when every step succeeded and the frontend is
\* asked for; what it returns is not used
Step4StartServices ==
    /\ run_pc = "services"
    /\ \E outcome \in StepOutcomes :
           IF success /\ runner.start_frontend
           THEN /\ run_log' = Append(run_log, [step |-> "serve", ok |-> outcome = "ok"])
                /\ errors' = IF outcome = "raised" THEN Append(errors, "serve") ELSE errors
           ELSE UNCHANGED <<run_log, errors>>
    /\ run_pc' = "summary"
    /\ UNCHANGED <<runner, data_files, success, run_result>>
    /\ UNCHANGED OtherThanRun

\* the summary and `return success`
ReturnSuccess ==
    /\ run_pc = "summary"
    /\ run_result' = <<success>>
    /\ run_pc' = "returned"
    /\ UNCHANGED <<runner, data_files, success, errors, run_log>>
    /\ UNCHANGED OtherThanRun

NextRun ==
    \/ Step0ConfigureSolr
    \/ Step1Scrape
    \/ Step2Clean
    \/ Step3Index
    \/ Step4StartServices
    \/ ReturnSuccess

SpecRun == InitRun /\ [][NextRun]_vars

----------------------------------------------------------------------------
(* Claims about the pipeline *)

StepOrder == <<"scrape", "clean", "index", "serve">>

IsPipelineStep(entry) == entry.step # "configure"

PipelineLog == SelectSeq(run_log, IsPipelineStep)

====
